---- MODULE Spec2Model ----
(***************************************************************************)
(* Model of the compression dashboard plugin                               *)
(* (compression_board_plugin/compression_plugin.py): the client-side view  *)
(* served by _serve_js (state, sidebar, tables, sorting) and the ratio     *)
(* derivation performed by render().                                       *)
(* Further specifications cover exportToCSV (SpecExport), the outcomes of  *)
(* the initial fetch (SpecFetch), the server side is_active and            *)
(* _serve_summary (SpecServe), CompressionWriter of                        *)
(* tensorboardX/compression.py (SpecWriter), the chart grid with its       *)
(* deferred redraws (SpecCharts), TrainingLogger (SpecLogger),             *)
(* BenchmarkParser.log_benchmark_results (SpecParser), and the path of a   *)
(* logged model from the writer to the served summary (SpecTags).          *)
(*                                                                         *)
(* JavaScript values are modelled as records [k, n, d, s]:                 *)
(*   k = "undefined" | "null" | "number" | "neginf" | "string"             *)
(*   n/d = the number as an exact reduced fraction (d > 0)                 *)
(*   s = the string as a sequence of UTF-16 code units                     *)
(* IEEE doubles are modelled by exact rationals.                           *)
(***************************************************************************)
EXTENDS Integers, Sequences, FiniteSets, TLC

VARIABLES
    \* ---- view state (compression_plugin.py:1223-1229) ----
    allRuns,          \* sequence of run records, in the order received
    runColors,        \* run id -> palette index
    visibleRuns,      \* set of run ids
    searchTerm,       \* string (sequence of code units)
    sortColumn,       \* column key, or NoColumn for null
    sortDirection,    \* "asc" | "desc"
    \* ---- DOM ----
    fetchState,       \* "pending" | "settled"
    rootView,         \* what #root shows: "loading" | "cards" | "empty" | "error"
    sidebar,          \* #runList: sequence of [run, checked, color]
    runCount,         \* #runCount text
    chartsGrid,       \* #chartsGrid style.display: "none" | "flex"
    relTable,         \* #relativeMetricsCard rows (<<>> while the card is absent)
    rawTable,         \* #rawMetricsCard rows (<<>> while the card is absent)
    \* ---- observation of the last renders of the tables ----
    sortTrail,        \* the direction and row orders of the last renders (at most
                      \* three): restarted by a change of visibleRuns or of the column
    \* ---- ratio derivation on a single record ----
    rec,              \* the input record
    derived,          \* render()'s mapped record
    ratioDone,        \* TRUE once derived holds the result for rec
    \* ---- exportToCSV (compression_plugin.py:2232-2262) ----
    csvFile,          \* the text of the last Blob handed to the download link
    linkClicks,       \* the number of link.click() calls
    alertText,        \* the text of the last alert()
    \* ---- the plugin's server side (compression_plugin.py:25-45, 2512-2639) ----
    store,            \* the upstream store: the two interfaces and the runs they hold
    response,         \* what _serve_summary answered, NoResponse before the request
    active,           \* what is_active returned: "True" | "False", "unasked" before
    \* ---- CompressionWriter (tensorboardX/compression.py) ----
    metrics,          \* the fp32_metrics and int8_metrics dictionaries of the call
    written,          \* the scalars written by add_scalar: a set of [tag, value]
    writerCall,       \* the call made and how it ended, "none" before the call
    \* ---- the chart card and the cards' DOM (compression_plugin.py:1355-1590) ----
    gridRuns,         \* the runs the chart grid was built with (the closures' "runs")
    expanded,         \* the charts whose wrapper carries the class "expanded"
    collapsed,        \* the cards whose content carries the class "collapsed"
    charts,           \* chart id -> what the chart element of the document shows
    timers,           \* the pending setTimeout callbacks, in the order they were set
    \* ---- TrainingLogger (tensorboardX/compression/training.py) ----
    best_val_f1,      \* self.best_val_f1
    best_epoch,       \* self.best_epoch
    epochLog,         \* the (epoch, val_f1) of the log_epoch calls made, in order
    reported,         \* what the last report wrote: best epoch and best F1
    \* ---- BenchmarkParser (tensorboardX/compression/benchmark.py) ----
    jsonFile,         \* the file at json_path: absent, or the models it lists
    writers,          \* the CompressionWriters opened, in order: logdir, state, writes
    parserCall        \* where log_benchmark_results stands and how it ended

vars == <<allRuns, runColors, visibleRuns, searchTerm, sortColumn, sortDirection,
          fetchState, rootView, sidebar, runCount, chartsGrid, relTable, rawTable,
          sortTrail, rec, derived, ratioDone, csvFile, linkClicks, alertText,
          store, response, active, metrics, written, writerCall,
          gridRuns, expanded, collapsed, charts, timers,
          best_val_f1, best_epoch, epochLog, reported,
          jsonFile, writers, parserCall>>

viewVars == <<allRuns, runColors, visibleRuns, searchTerm, sortColumn, sortDirection,
              fetchState, rootView, sidebar, runCount, chartsGrid, relTable, rawTable,
              sortTrail>>

ratioVars == <<rec, derived, ratioDone>>

exportVars == <<csvFile, linkClicks, alertText>>

serveVars == <<store, response, active>>

writerVars == <<metrics, written, writerCall>>

chartVars == <<gridRuns, expanded, collapsed, charts, timers>>

loggerVars == <<best_val_f1, best_epoch, epochLog, reported>>

parserVars == <<jsonFile, writers, parserCall>>

\* everything but the view and the DOM of its sidebar and tables
offViewVars == <<ratioVars, exportVars, serveVars, writerVars, chartVars, loggerVars,
                 parserVars>>

-----------------------------------------------------------------------------
(* JavaScript values *)

Undef == [k |-> "undefined", n |-> 0, d |-> 1, s |-> <<>>]
Null == [k |-> "null", n |-> 0, d |-> 1, s |-> <<>>]
NegInf == [k |-> "neginf", n |-> 0, d |-> 1, s |-> <<>>]
Str(chars) == [k |-> "string", n |-> 0, d |-> 1, s |-> chars]

Abs(x) == IF x < 0 THEN -x ELSE x

RECURSIVE GCD(_, _)
GCD(a, b) == IF b = 0 THEN a ELSE GCD(b, a % b)

\* the number num/den (den # 0) as a reduced fraction with a positive denominator
Num(num, den) ==
    LET g == GCD(Abs(num), Abs(den))
        sgn == IF den < 0 THEN -1 ELSE 1
    IN [k |-> "number", n |-> (sgn * num) \div g, d |-> Abs(den) \div g, s |-> <<>>]

IsNullish(v) == v.k \in {"null", "undefined"}

-----------------------------------------------------------------------------
(* Run records: the summary endpoint's keys (compression_plugin.py:2561-2578) *)

NumFields == {"accuracy_fp32", "accuracy_int8", "accuracy_drop", "size_ratio", "speedup",
              "memory_reduction_mb", "energy_reduction_mw",
              "model_size_fp32", "model_size_int8", "latency_fp32", "latency_int8",
              "memory_fp32", "memory_int8", "energy_fp32", "energy_int8"}

Fields == {"run"} \cup NumFields

\* the keys of the objects render() maps the runs to (lines 1314-1320)
DerivedFields == Fields \cup {"accuracy_ratio", "latency_ratio", "energy_ratio"}

-----------------------------------------------------------------------------
(* Arithmetic and formatting *)

\* JavaScript's a / b on numbers: x/0 is an infinity, 0/0 is NaN
JsDiv(a, b) ==
    IF b.n = 0
    THEN IF a.n = 0 THEN [k |-> "nan", n |-> 0, d |-> 1, s |-> <<>>]
         ELSE [k |-> "inf", n |-> (IF a.n < 0 THEN -1 ELSE 1), d |-> 1, s |-> <<>>]
    ELSE Num(a.n * b.d, a.d * b.n)

calculateRatio_NoZeroCheck(fp32, int8) ==
    IF IsNullish(fp32) \/ IsNullish(int8) THEN Null ELSE JsDiv(fp32, int8)

calculateRatio_Inverted(fp32, int8) ==
    IF IsNullish(fp32) \/ IsNullish(int8) \/ (int8.k = "number" /\ int8.n = 0)
    THEN Null
    ELSE JsDiv(int8, fp32)

\* function calculateRatio(fp32, int8)
calculateRatio(fp32, int8) ==
    IF IsNullish(fp32) \/ IsNullish(int8) \/ (int8.k = "number" /\ int8.n = 0)
    THEN Null
    ELSE JsDiv(fp32, int8)

RECURSIVE Pow10(_)
Pow10(e) == IF e = 0 THEN 1 ELSE 10 * Pow10(e - 1)

RECURSIVE PadZeros(_, _)
PadZeros(str, width) == IF Len(str) >= width THEN str ELSE PadZeros("0" \o str, width)

\* Number.prototype.toFixed(digits) for a finite number: the nearest multiple of
\* 10^-digits, the larger one on a tie, printed with exactly `digits` decimals
toFixed(v, digits) ==
    LET p == Pow10(digits)
        scaled == (2 * Abs(v.n) * p + v.d) \div (2 * v.d)
        body == ToString(scaled \div p) \o "." \o PadZeros(ToString(scaled % p), digits)
    IN CASE v.k = "nan" -> "NaN"
         [] v.k = "inf" -> IF v.n < 0 THEN "-Infinity" ELSE "Infinity"
         [] OTHER -> IF v.n < 0 THEN "-" \o body ELSE body

\* const formatVal = (val) => ... val.toFixed(4) : '-'
formatVal(val) == IF ~IsNullish(val) THEN toFixed(val, 4) ELSE "-"

\* const formatRatio = (val) => ... val.toFixed(2) + 'x' : '-'
formatRatio(val) == IF ~IsNullish(val) THEN toFixed(val, 2) \o "x" ELSE "-"

DeriveRun_PreferComputed(r) ==
    LET lat == calculateRatio(r["latency_fp32"], r["latency_int8"])
        siz == calculateRatio(r["model_size_fp32"], r["model_size_int8"])
    IN [f \in DerivedFields |->
        CASE f = "accuracy_ratio" -> calculateRatio(r["accuracy_fp32"], r["accuracy_int8"])
          [] f = "latency_ratio" -> IF ~IsNullish(lat) THEN lat ELSE r["speedup"]
          [] f = "energy_ratio" -> calculateRatio(r["energy_fp32"], r["energy_int8"])
          [] f = "size_ratio" -> IF ~IsNullish(siz) THEN siz ELSE r["size_ratio"]
          [] OTHER -> r[f]]

\* the callback of runs.map(...) in render(): the run plus its four ratios
DeriveRun(r) ==
    [f \in DerivedFields |->
        CASE f = "accuracy_ratio" -> calculateRatio(r["accuracy_fp32"], r["accuracy_int8"])
          [] f = "latency_ratio" ->
                IF ~IsNullish(r["speedup"]) THEN r["speedup"]
                ELSE calculateRatio(r["latency_fp32"], r["latency_int8"])
          [] f = "energy_ratio" -> calculateRatio(r["energy_fp32"], r["energy_int8"])
          [] f = "size_ratio" ->
                IF ~IsNullish(r["size_ratio"]) THEN r["size_ratio"]
                ELSE calculateRatio(r["model_size_fp32"], r["model_size_int8"])
          [] OTHER -> r[f]]

-----------------------------------------------------------------------------
(* Ratio derivation on one record: the inputs *)

\* the values each field of the record under derivation is drawn from
RatioInputs(f) ==
    CASE f = "run" -> {Str(<<109>>)}
      [] f \in {"accuracy_fp32", "accuracy_int8"} -> {Undef, Null, Num(0, 1), Num(99, 100)}
      [] f = "latency_fp32" -> {Null, Num(0, 1), Num(12, 1)}
      [] f = "latency_int8" -> {Undef, Null, Num(0, 1), Num(4, 1)}
      [] f = "speedup" -> {Undef, Null, Num(0, 1), Num(2, 1)}
      [] f = "energy_fp32" -> {Null, Num(5, 1)}
      [] f = "energy_int8" -> {Null, Num(0, 1), Num(2, 1)}
      [] f = "model_size_fp32" -> {Null, Num(200, 1)}
      [] f = "model_size_int8" -> {Undef, Null, Num(0, 1), Num(10, 1)}
      [] f = "size_ratio" -> {Null, Num(0, 1), Num(25, 1)}
      [] OTHER -> {Null}

\* let sortColumn = null
NoColumn == "null"

NoRecord == [f \in DerivedFields |-> Undef]

\* no Blob made, no link clicked, no alert shown
NoFile == <<>>
ExportIdle ==
    /\ csvFile = NoFile
    /\ linkClicks = 0
    /\ alertText = ""

\* no store attached, no request served, is_active not called
NoStore == [data_provider |-> "absent", multiplexer |-> "absent", runs |-> <<>>]
NoResponse == [raised |-> FALSE, status |-> 0, runs |-> <<>>, error |-> <<>>]
ServeIdle ==
    /\ store = NoStore
    /\ response = NoResponse
    /\ active = "unasked"

\* no writer call made
NoMetrics == [fp32 |-> <<>>, int8 |-> <<>>]
WriterIdle ==
    /\ metrics = NoMetrics
    /\ written = {}
    /\ writerCall = "none"

\* no chart grid built, no timer set
ChartIdle ==
    /\ gridRuns = <<>>
    /\ expanded = {}
    /\ collapsed = {}
    /\ charts = <<>>
    /\ timers = <<>>

\* a TrainingLogger no method of which was called
NoReport == [best_epoch |-> -1, best_val_f1 |-> Null, text |-> ""]
LoggerIdle ==
    /\ best_val_f1 = Num(0, 1)
    /\ best_epoch = 0
    /\ epochLog = <<>>
    /\ reported = NoReport

\* no benchmark file given, no writer opened
NoJson == [exists |-> FALSE, models |-> <<>>]
NotCalled == [pc |-> "idle", next |-> 0, returned |-> 0]
ParserIdle ==
    /\ jsonFile = NoJson
    /\ writers = <<>>
    /\ parserCall = NotCalled

ViewIdle ==
    /\ allRuns = <<>>
    /\ runColors = <<>>
    /\ visibleRuns = {}
    /\ searchTerm = <<>>
    /\ sortColumn = NoColumn
    /\ sortDirection = "asc"
    /\ fetchState = "pending"
    /\ rootView = "loading"
    /\ sidebar = <<>>
    /\ runCount = ""
    /\ chartsGrid = "none"
    /\ relTable = <<>>
    /\ rawTable = <<>>
    /\ sortTrail = <<>>

InitRatio ==
    /\ ViewIdle
    /\ ExportIdle
    /\ ServeIdle
    /\ WriterIdle
    /\ ChartIdle
    /\ LoggerIdle
    /\ ParserIdle
    /\ rec \in [run : RatioInputs("run"),
                accuracy_fp32 : RatioInputs("accuracy_fp32"),
                accuracy_int8 : RatioInputs("accuracy_int8"),
                accuracy_drop : RatioInputs("accuracy_drop"),
                size_ratio : RatioInputs("size_ratio"),
                speedup : RatioInputs("speedup"),
                memory_reduction_mb : RatioInputs("memory_reduction_mb"),
                energy_reduction_mw : RatioInputs("energy_reduction_mw"),
                model_size_fp32 : RatioInputs("model_size_fp32"),
                model_size_int8 : RatioInputs("model_size_int8"),
                latency_fp32 : RatioInputs("latency_fp32"),
                latency_int8 : RatioInputs("latency_int8"),
                memory_fp32 : RatioInputs("memory_fp32"),
                memory_int8 : RatioInputs("memory_int8"),
                energy_fp32 : RatioInputs("energy_fp32"),
                energy_int8 : RatioInputs("energy_int8")]
    /\ derived = NoRecord
    /\ ratioDone = FALSE

\* render() maps the record
DeriveRatios ==
    /\ ~ratioDone
    /\ derived' = DeriveRun(rec)
    /\ ratioDone' = TRUE
    /\ UNCHANGED <<rec, viewVars, exportVars, serveVars, writerVars, chartVars, loggerVars, parserVars>>

NextRatio == DeriveRatios

SpecRatio == InitRatio /\ [][NextRatio]_vars

-----------------------------------------------------------------------------
(* The four ratio families *)

Families == {"accuracy", "latency", "energy", "size"}

Fp32Field(fam) ==
    CASE fam = "accuracy" -> "accuracy_fp32" [] fam = "latency" -> "latency_fp32"
      [] fam = "energy" -> "energy_fp32" [] fam = "size" -> "model_size_fp32"

Int8Field(fam) ==
    CASE fam = "accuracy" -> "accuracy_int8" [] fam = "latency" -> "latency_int8"
      [] fam = "energy" -> "energy_int8" [] fam = "size" -> "model_size_int8"

RatioField(fam) ==
    CASE fam = "accuracy" -> "accuracy_ratio" [] fam = "latency" -> "latency_ratio"
      [] fam = "energy" -> "energy_ratio" [] fam = "size" -> "size_ratio"

\* the families whose ratio the source may supply, and the field that carries it
PreFamilies == {"latency", "size"}
PreField(fam) == CASE fam = "latency" -> "speedup" [] fam = "size" -> "size_ratio"

IsNum(v) == v.k = "number"
Int8ZeroOrMissing(r, fam) ==
    IsNullish(r[Int8Field(fam)]) \/ (IsNum(r[Int8Field(fam)]) /\ r[Int8Field(fam)].n = 0)
HasPre(r, fam) == fam \in PreFamilies /\ ~IsNullish(r[PreField(fam)])

\* C1 (as stated): whenever the family's int8 value is 0 or missing, the derived
\* ratio of the family is null, whatever the other fields of the record hold.
C1_Original ==
    ratioDone => \A fam \in Families :
        Int8ZeroOrMissing(rec, fam) => derived[RatioField(fam)] = Null

\* C1 (amended): whenever the family's int8 value is 0 or missing and the record
\* carries no precomputed ratio for the family (speedup, size_ratio null or
\* missing), the derived ratio is null: not NaN, not an infinity, not 0.
C1_NullRatio ==
    ratioDone => \A fam \in Families :
        (Int8ZeroOrMissing(rec, fam) /\ ~HasPre(rec, fam))
            => derived[RatioField(fam)] = Null

C1_Witness ==
    /\ ratioDone
    /\ rec["latency_int8"] = Num(0, 1)
    /\ rec["latency_fp32"] = Num(12, 1)
    /\ IsNullish(rec["speedup"])
    /\ rec["model_size_int8"] = Undef
    /\ rec["size_ratio"] = Null
    /\ derived["latency_ratio"] = Null
    /\ derived["size_ratio"] = Null

\* C2: a record that carries a precomputed ratio (speedup, size_ratio) together
\* with the raw fp32/int8 pair of the family gets exactly the precomputed value
\* as its derived ratio, also when that differs from fp32 / int8.
C2_PrecomputedWins ==
    ratioDone => \A fam \in PreFamilies :
        (HasPre(rec, fam) /\ IsNum(rec[Fp32Field(fam)]) /\ IsNum(rec[Int8Field(fam)]))
            => derived[RatioField(fam)] = rec[PreField(fam)]

C2_Witness ==
    /\ ratioDone
    /\ rec["speedup"] = Num(2, 1)
    /\ rec["latency_fp32"] = Num(12, 1)
    /\ rec["latency_int8"] = Num(4, 1)
    /\ derived["latency_ratio"] = Num(2, 1)
    /\ rec["size_ratio"] = Num(25, 1)
    /\ rec["model_size_fp32"] = Num(200, 1)
    /\ rec["model_size_int8"] = Num(10, 1)
    /\ derived["size_ratio"] = Num(25, 1)

\* C3: without a precomputed ratio, with fp32 and int8 both present and int8
\* nonzero, the derived ratio is the number fp32 / int8; sizes 200 and 10 are
\* displayed as "20.00x", accuracies 0.99 and 0.99 as "1.00x".
C3_RawRatio ==
    ratioDone =>
        /\ \A fam \in Families :
            LET a == rec[Fp32Field(fam)]
                b == rec[Int8Field(fam)]
                q == derived[RatioField(fam)]
            IN (~HasPre(rec, fam) /\ IsNum(a) /\ IsNum(b) /\ b.n # 0)
                 => /\ IsNum(q)
                    /\ q.d > 0
                    /\ q.n * q.d >= 0
                    /\ q.n * b.n * a.d = a.n * b.d * q.d
        /\ (rec["model_size_fp32"] = Num(200, 1) /\ rec["model_size_int8"] = Num(10, 1)
              /\ IsNullish(rec["size_ratio"]))
             => formatRatio(derived["size_ratio"]) = "20.00x"
        /\ (rec["accuracy_fp32"] = Num(99, 100) /\ rec["accuracy_int8"] = Num(99, 100))
             => formatRatio(derived["accuracy_ratio"]) = "1.00x"

C3_Witness ==
    /\ ratioDone
    /\ rec["model_size_fp32"] = Num(200, 1)
    /\ rec["model_size_int8"] = Num(10, 1)
    /\ rec["size_ratio"] = Null
    /\ formatRatio(derived["size_ratio"]) = "20.00x"
    /\ rec["accuracy_fp32"] = Num(99, 100)
    /\ rec["accuracy_int8"] = Num(99, 100)
    /\ formatRatio(derived["accuracy_ratio"]) = "1.00x"

-----------------------------------------------------------------------------
(* The view: strings, sorting, rendering *)

\* the number of entries of TENSORBOARD_COLORS
PaletteSize == 20

\* String.prototype.toLowerCase on ASCII code units
toLowerCase(str) ==
    [i \in 1..Len(str) |-> IF str[i] \in 65..90 THEN str[i] + 32 ELSE str[i]]

\* String.prototype.includes
includes(hay, needle) ==
    \E i \in 0..(Len(hay) - Len(needle)) : SubSeq(hay, i + 1, i + Len(needle)) = needle

\* a < b on strings: lexicographic on code units
RECURSIVE StrLess(_, _)
StrLess(a, b) ==
    IF b = <<>> THEN FALSE
    ELSE IF a = <<>> THEN TRUE
    ELSE IF Head(a) # Head(b) THEN Head(a) < Head(b)
    ELSE StrLess(Tail(a), Tail(b))

\* a < b of JavaScript on the values the comparator sees: two numbers (or
\* -Infinity) compare numerically, two strings by code units; a string against
\* a number converts to NaN and compares false both ways
JsLess(a, b) ==
    CASE a.k = "string" /\ b.k = "string" -> StrLess(a.s, b.s)
      [] a.k = "string" \/ b.k = "string" -> FALSE
      [] a.k = "neginf" -> b.k # "neginf"
      [] b.k = "neginf" -> FALSE
      [] OTHER -> a.n * b.d < b.n * a.d

\* if (aVal === null || aVal === undefined) aVal = -Infinity
SortKey(r, col) == IF IsNullish(r[col]) THEN NegInf ELSE r[col]

compare_NullsHigh(a, b, col, dir) ==
    LET aNull == IsNullish(a[col])
        bNull == IsNullish(b[col])
        comparison == CASE aNull /\ bNull -> 0
                        [] aNull -> 1
                        [] bNull -> -1
                        [] JsLess(b[col], a[col]) -> 1
                        [] JsLess(a[col], b[col]) -> -1
                        [] OTHER -> 0
    IN IF dir = "asc" THEN comparison ELSE -comparison

\* the comparator of runs.sort in render()
compare(a, b, col, dir) ==
    LET aVal == SortKey(a, col)
        bVal == SortKey(b, col)
        comparison == IF JsLess(bVal, aVal) THEN 1 ELSE IF JsLess(aVal, bVal) THEN -1 ELSE 0
    IN IF dir = "asc" THEN comparison ELSE -comparison

\* x placed into the sorted sequence behind every element it does not precede
RECURSIVE InsertSorted(_, _, _, _)
InsertSorted(sorted, x, col, dir) ==
    IF sorted = <<>> THEN <<x>>
    ELSE IF compare(x, Head(sorted), col, dir) < 0 THEN <<x>> \o sorted
    ELSE <<Head(sorted)>> \o InsertSorted(Tail(sorted), x, col, dir)

RECURSIVE SortFrom(_, _, _, _)
SortFrom(sorted, rest, col, dir) ==
    IF rest = <<>> THEN sorted
    ELSE SortFrom(InsertSorted(sorted, Head(rest), col, dir), Tail(rest), col, dir)

\* Array.prototype.sort with the comparator: a stable sort
sort(runs, col, dir) == SortFrom(<<>>, runs, col, dir)

RunIds(runs) == {runs[i]["run"].s : i \in 1..Len(runs)}

\* the first half of render(): the visible runs, with ratios, sorted if needed
RenderRuns(runs, vis, col, dir) ==
    LET kept == SelectSeq(runs, LAMBDA r : r["run"].s \in vis)
        shown == [i \in 1..Len(kept) |-> DeriveRun(kept[i])]
    IN IF col # NoColumn THEN sort(shown, col, dir) ELSE shown

\* the rows renderRelativeMetricsTable writes
RelRow(r) ==
    [run |-> r["run"].s,
     cells |-> <<formatRatio(r["accuracy_ratio"]), formatRatio(r["latency_ratio"]),
                 formatRatio(r["energy_ratio"]), formatRatio(r["size_ratio"])>>]

\* the rows renderRawMetricsTable writes
RawRow(r) ==
    [run |-> r["run"].s,
     cells |-> <<formatVal(r["accuracy_fp32"]), formatVal(r["accuracy_int8"]),
                 formatVal(r["latency_fp32"]), formatVal(r["latency_int8"]),
                 formatVal(r["energy_fp32"]), formatVal(r["energy_int8"]),
                 formatVal(r["model_size_fp32"]), formatVal(r["model_size_int8"])>>]

\* the data-column keys of the two tables
RelColumns == {"run", "accuracy_ratio", "latency_ratio", "energy_ratio", "size_ratio"}
RawColumns == {"run", "accuracy_fp32", "accuracy_int8", "latency_fp32", "latency_int8",
               "energy_fp32", "energy_int8", "model_size_fp32", "model_size_int8"}

\* runCountEl.textContent
RunCountText(vis, runs) ==
    ToString(Cardinality(vis)) \o " of " \o ToString(Len(runs)) \o " runs"

\* renderSidebar's list: one item per run whose id contains the search text
SidebarItems(runs, term, vis, colors) ==
    LET filteredRuns ==
            SelectSeq(runs, LAMBDA r : includes(toLowerCase(r["run"].s), toLowerCase(term)))
    IN [i \in 1..Len(filteredRuns) |->
            [run |-> filteredRuns[i]["run"].s,
             checked |-> filteredRuns[i]["run"].s \in vis,
             color |-> colors[filteredRuns[i]["run"].s]]]

RowIds(rows) == [i \in 1..Len(rows) |-> rows[i].run]

-----------------------------------------------------------------------------
(* The view: inputs *)

\* the longest run list a fetch returns
MaxRuns == 3

BlankRun(name) == [f \in Fields |-> IF f = "run" THEN Str(name) ELSE Null]

\* "Ab": every pair present; speedup differs from latency_fp32 / latency_int8
RunAb ==
    [BlankRun(<<65, 98>>) EXCEPT
        !["accuracy_fp32"] = Num(99, 100), !["accuracy_int8"] = Num(99, 100),
        !["accuracy_drop"] = Num(0, 1),
        !["model_size_fp32"] = Num(200, 1), !["model_size_int8"] = Num(10, 1),
        !["latency_fp32"] = Num(12, 1), !["latency_int8"] = Num(4, 1),
        !["speedup"] = Num(2, 1),
        !["memory_fp32"] = Num(64, 1), !["memory_int8"] = Num(16, 1),
        !["energy_fp32"] = Num(5, 1), !["energy_int8"] = Num(2, 1)]

\* "aC": no int8 accuracy, int8 size 0, no latency, no energy
RunaC ==
    [BlankRun(<<97, 67>>) EXCEPT
        !["accuracy_fp32"] = Num(99, 100),
        !["model_size_fp32"] = Num(200, 1), !["model_size_int8"] = Num(0, 1)]

\* "b": precomputed size_ratio (equal to the ratio of "Ab") without sizes; int8
\* accuracy equal to that of "Ab"
Runb ==
    [BlankRun(<<98>>) EXCEPT
        !["accuracy_fp32"] = Num(1, 2), !["accuracy_int8"] = Num(99, 100),
        !["accuracy_drop"] = Num(-49, 100),
        !["size_ratio"] = Num(20, 1),
        !["latency_fp32"] = Num(12, 1), !["latency_int8"] = Num(4, 1),
        !["energy_fp32"] = Num(5, 1), !["energy_int8"] = Num(0, 1)]

\* "Ba": accuracies only; fp32 accuracy equal to that of "Ab" and "aC"
RunBa ==
    [BlankRun(<<66, 97>>) EXCEPT
        !["accuracy_fp32"] = Num(99, 100), !["accuracy_int8"] = Num(1, 2),
        !["accuracy_drop"] = Num(49, 100)]

RunPool == {RunAb, RunaC, Runb, RunBa}

\* the run lists a fetch may return: distinct runs of the pool, in any order
RunLists ==
    {l \in UNION {[1..n -> RunPool] : n \in 1..MaxRuns} :
        \A i, j \in 1..Len(l) : i # j => l[i] # l[j]}

\* the texts typed into the search box: "" and "AB"
SearchTexts == {<<>>, <<65, 66>>}

-----------------------------------------------------------------------------
(* The view: functions called by the handlers *)

assignRunColors_NoWrap(runs) ==
    [id \in RunIds(runs) |->
        LET last == CHOOSE i \in 1..Len(runs) :
                        /\ runs[i]["run"].s = id
                        /\ \A j \in (i + 1)..Len(runs) : runs[j]["run"].s # id
        IN last - 1]

\* assignRunColors(): run id -> palette index of its (last) position
assignRunColors(runs) ==
    [id \in RunIds(runs) |->
        LET last == CHOOSE i \in 1..Len(runs) :
                        /\ runs[i]["run"].s = id
                        /\ \A j \in (i + 1)..Len(runs) : runs[j]["run"].s # id
        IN (last - 1) % PaletteSize]

\* updateRunCount()
updateRunCount == runCount' = RunCountText(visibleRuns', allRuns')

\* renderSidebar()
renderSidebar ==
    /\ sidebar' = SidebarItems(allRuns', searchTerm', visibleRuns', runColors')
    /\ updateRunCount

\* render(): renderChartsGrid, renderRelativeMetricsTable and renderRawMetricsTable
\* on the sorted visible runs; the two tables return early on an empty list
render ==
    \E runs \in {RenderRuns(allRuns', visibleRuns', sortColumn', sortDirection')} :
       /\ chartsGrid' = IF runs = <<>> THEN "none" ELSE "flex"
       /\ relTable' = IF runs = <<>> THEN relTable ELSE [i \in 1..Len(runs) |-> RelRow(runs[i])]
       /\ rawTable' = IF runs = <<>> THEN rawTable ELSE [i \in 1..Len(runs) |-> RawRow(runs[i])]

\* what the two tables show after the render of this step
Snapshot == [dir |-> sortDirection', rel |-> RowIds(relTable'), raw |-> RowIds(rawTable')]

LastThree(seq) == IF Len(seq) <= 3 THEN seq ELSE SubSeq(seq, Len(seq) - 2, Len(seq))

SortClick_KeepDirection(column, curColumn, curDirection) ==
    IF curColumn = column
    THEN [column |-> curColumn, direction |-> IF curDirection = "asc" THEN "desc" ELSE "asc"]
    ELSE [column |-> column, direction |-> curDirection]

SortClick_NoFlipBack(column, curColumn, curDirection) ==
    IF curColumn = column
    THEN [column |-> curColumn, direction |-> "desc"]
    ELSE [column |-> column, direction |-> "asc"]

\* the click handler of a th.sortable: the new sortColumn and sortDirection
SortClick(column, curColumn, curDirection) ==
    IF curColumn = column
    THEN [column |-> curColumn, direction |-> IF curDirection = "asc" THEN "desc" ELSE "asc"]
    ELSE [column |-> column, direction |-> "asc"]

-----------------------------------------------------------------------------
(* The view: the fetch and the handlers *)

Init ==
    /\ ViewIdle
    /\ ExportIdle
    /\ ServeIdle
    /\ WriterIdle
    /\ ChartIdle
    /\ LoggerIdle
    /\ ParserIdle
    /\ rec = NoRecord
    /\ derived = NoRecord
    /\ ratioDone = FALSE

\* fetch(apiUrl) resolves with a non-empty run list
FetchRuns(runs) ==
    /\ fetchState = "pending"
    /\ fetchState' = "settled"
    /\ allRuns' = runs
    /\ visibleRuns' = visibleRuns \cup RunIds(runs)
    /\ rootView' = "cards"
    /\ runColors' = assignRunColors(runs)
    /\ UNCHANGED <<searchTerm, sortColumn, sortDirection>>
    /\ renderSidebar
    /\ render
    /\ sortTrail' = <<Snapshot>>
    /\ UNCHANGED offViewVars

\* fetch(apiUrl) resolves with no runs
FetchEmpty ==
    /\ fetchState = "pending"
    /\ fetchState' = "settled"
    /\ rootView' = "empty"
    /\ UNCHANGED <<allRuns, runColors, visibleRuns, searchTerm, sortColumn, sortDirection,
                   sidebar, runCount, chartsGrid, relTable, rawTable, sortTrail>>
    /\ UNCHANGED offViewVars

FetchError_NoCatch ==
    /\ fetchState = "pending"
    /\ fetchState' = "settled"
    /\ UNCHANGED <<allRuns, runColors, visibleRuns, searchTerm, sortColumn, sortDirection,
                   rootView, sidebar, runCount, chartsGrid, relTable, rawTable, sortTrail>>
    /\ UNCHANGED offViewVars

\* the response is not OK, the request fails, or the body does not parse
FetchError ==
    /\ fetchState = "pending"
    /\ fetchState' = "settled"
    /\ rootView' = "error"
    /\ UNCHANGED <<allRuns, runColors, visibleRuns, searchTerm, sortColumn, sortDirection,
                   sidebar, runCount, chartsGrid, relTable, rawTable, sortTrail>>
    /\ UNCHANGED offViewVars

ToggleCheckbox_NoCount(i) ==
    /\ i \in 1..Len(sidebar)
    /\ LET nowChecked == ~sidebar[i].checked
           id == sidebar[i].run
       IN /\ sidebar' = [sidebar EXCEPT ![i].checked = nowChecked]
          /\ visibleRuns' = IF nowChecked THEN visibleRuns \cup {id} ELSE visibleRuns \ {id}
    /\ UNCHANGED <<allRuns, runColors, searchTerm, sortColumn, sortDirection,
                   fetchState, rootView, runCount>>
    /\ render
    /\ sortTrail' = <<Snapshot>>
    /\ UNCHANGED offViewVars

\* the change handler of the checkbox of sidebar item i, run by a click on the
\* checkbox and by a click on the label (which flips the box and dispatches change)
ToggleCheckbox(i) ==
    /\ i \in 1..Len(sidebar)
    /\ LET nowChecked == ~sidebar[i].checked
           id == sidebar[i].run
       IN /\ sidebar' = [sidebar EXCEPT ![i].checked = nowChecked]
          /\ visibleRuns' = IF nowChecked THEN visibleRuns \cup {id} ELSE visibleRuns \ {id}
    /\ UNCHANGED <<allRuns, runColors, searchTerm, sortColumn, sortDirection,
                   fetchState, rootView>>
    /\ updateRunCount
    /\ render
    /\ sortTrail' = <<Snapshot>>
    /\ UNCHANGED offViewVars


EditSearch_DropsHidden(text) ==
    /\ rootView = "cards"
    /\ searchTerm' = text
    /\ visibleRuns' = {id \in visibleRuns : includes(toLowerCase(id), toLowerCase(text))}
    /\ UNCHANGED <<allRuns, runColors, sortColumn, sortDirection, fetchState, rootView,
                   chartsGrid, relTable, rawTable, sortTrail>>
    /\ renderSidebar
    /\ UNCHANGED offViewVars

\* the input handler of the search box
EditSearch(text) ==
    /\ rootView = "cards"
    /\ searchTerm' = text
    /\ UNCHANGED <<allRuns, runColors, visibleRuns, sortColumn, sortDirection,
                   fetchState, rootView, chartsGrid, relTable, rawTable, sortTrail>>
    /\ renderSidebar
    /\ UNCHANGED offViewVars

SelectAll_FilteredOnly ==
    /\ rootView = "cards"
    /\ visibleRuns' = visibleRuns \cup {sidebar[i].run : i \in 1..Len(sidebar)}
    /\ UNCHANGED <<allRuns, runColors, searchTerm, sortColumn, sortDirection,
                   fetchState, rootView>>
    /\ renderSidebar
    /\ render
    /\ sortTrail' = <<Snapshot>>
    /\ UNCHANGED offViewVars

\* the click handler of selectAllBtn
SelectAll ==
    /\ rootView = "cards"
    /\ visibleRuns' = visibleRuns \cup RunIds(allRuns)
    /\ UNCHANGED <<allRuns, runColors, searchTerm, sortColumn, sortDirection,
                   fetchState, rootView>>
    /\ renderSidebar
    /\ render
    /\ sortTrail' = <<Snapshot>>
    /\ UNCHANGED offViewVars

\* the click handler of deselectAllBtn
DeselectAll ==
    /\ rootView = "cards"
    /\ visibleRuns' = {}
    /\ UNCHANGED <<allRuns, runColors, searchTerm, sortColumn, sortDirection,
                   fetchState, rootView>>
    /\ renderSidebar
    /\ render
    /\ sortTrail' = <<Snapshot>>
    /\ UNCHANGED offViewVars

\* a click on a column header: the handler, then render()
ClickHeader(column) ==
    /\ rootView = "cards"
    /\ LET next == SortClick(column, sortColumn, sortDirection)
       IN /\ sortColumn' = next.column
          /\ sortDirection' = next.direction
    /\ UNCHANGED <<allRuns, runColors, visibleRuns, searchTerm, fetchState, rootView,
                   sidebar, runCount>>
    /\ render
    /\ sortTrail' = IF sortColumn = column
                    THEN LastThree(Append(sortTrail, Snapshot))
                    ELSE <<Snapshot>>
    /\ UNCHANGED offViewVars

\* runColors.get(r.run) || TENSORBOARD_COLORS[0]
ColorOf(colors, id) == IF id \in DOMAIN colors THEN colors[id] ELSE 0

\* updateThemeColors(), as far as the runs go: the color boxes of the sidebar
\* are given the colors of runColors again
UpdateThemeColors ==
    /\ sidebar' = [i \in 1..Len(sidebar) |->
                      [sidebar[i] EXCEPT !.color = ColorOf(runColors, sidebar[i].run)]]
    /\ UNCHANGED <<allRuns, runColors, visibleRuns, searchTerm, sortColumn, sortDirection,
                   fetchState, rootView, runCount, chartsGrid, relTable, rawTable,
                   sortTrail>>
    /\ UNCHANGED offViewVars

\* a click on a header of the relative metrics table
ClickRelHeader(column) == column \in RelColumns /\ ClickHeader(column)

\* a click on a header of the raw metrics table
ClickRawHeader(column) == column \in RawColumns /\ ClickHeader(column)

\* the headers clicked
RelClicked == {"run", "size_ratio"}
RawClicked == {"run", "accuracy_int8"}

Next ==
    \/ \E runs \in RunLists : FetchRuns(runs)
    \/ FetchEmpty
    \/ FetchError
    \/ \E i \in 1..Len(sidebar) : ToggleCheckbox(i)
    \/ \E text \in SearchTexts : EditSearch(text)
    \/ SelectAll
    \/ DeselectAll
    \/ \E column \in RelClicked : ClickRelHeader(column)
    \/ \E column \in RawClicked : ClickRawHeader(column)
    \/ UpdateThemeColors

Spec == Init /\ [][Next]_vars

-----------------------------------------------------------------------------
(* Claims about the view *)

Loaded == rootView = "cards"

IdSet(ids) == {ids[i] : i \in 1..Len(ids)}
NoRepeats(ids) == \A i, j \in 1..Len(ids) : i # j => ids[i] # ids[j]
ShowsExactly(rows, ids) ==
    /\ IdSet(RowIds(rows)) = ids
    /\ NoRepeats(RowIds(rows))

\* C4: after a successful load, whatever is toggled, selected, searched or
\* sorted, the rows of the raw and of the relative metrics table are exactly the
\* runs in visibleRuns (no rows when visibleRuns is empty).
C4_TablesShowVisibleRuns ==
    Loaded => ShowsExactly(relTable, visibleRuns) /\ ShowsExactly(rawTable, visibleRuns)

\* the run with the given id
RunOf(id) == CHOOSE r \in IdSet(allRuns) : r["run"].s = id

\* the position of the run in allRuns
PosOf(id) == CHOOSE i \in 1..Len(allRuns) : allRuns[i]["run"].s = id

\* the ids of the runs whose id contains the text, case-insensitively, in
\* allRuns order
Matching(text) ==
    LET ids == [i \in 1..Len(allRuns) |-> allRuns[i]["run"].s]
    IN SelectSeq(ids, LAMBDA id : \E pre, post \in 0..Len(id) :
                         /\ pre + Len(text) + post = Len(id)
                         /\ \A k \in 1..Len(text) :
                              toLowerCase(id)[pre + k] = toLowerCase(text)[k])

\* C5: a search edit changes only searchTerm and the sidebar entries shown (the
\* runs whose id contains the text, case-insensitively); visibleRuns and so the
\* checked state of every run, shown or hidden, stay as they were.
C5_SearchFrame ==
    [][((\E text \in SearchTexts : EditSearch(text)) \/ searchTerm' # searchTerm)
        => /\ UNCHANGED <<allRuns, runColors, visibleRuns, sortColumn, sortDirection,
                          fetchState, rootView, runCount, chartsGrid, relTable, rawTable>>
           /\ RowIds(sidebar') = Matching(searchTerm')
           /\ \A i \in 1..Len(sidebar') :
                sidebar'[i].checked = (sidebar'[i].run \in visibleRuns)]_vars

C5_Witness ==
    /\ Loaded
    /\ searchTerm = <<65, 66>>
    /\ Len(allRuns) = 3
    /\ RowIds(sidebar) = << <<65, 98>> >>
    /\ Cardinality(visibleRuns) = 1
    /\ <<65, 98>> \notin visibleRuns
    /\ ~sidebar[1].checked

\* C6: whatever the search text, Select All makes visibleRuns the set of all run
\* ids and Deselect All makes it empty, runs hidden by the search included.
C6_SelectDeselectAll ==
    [][/\ SelectAll => visibleRuns' = RunIds(allRuns)
       /\ DeselectAll => visibleRuns' = {}]_vars

C6_Witness ==
    /\ Loaded
    /\ searchTerm = <<65, 66>>
    /\ Len(sidebar) = 1
    /\ Len(allRuns) = 3
    /\ visibleRuns = {}
    /\ Len(relTable) = 3

\* C7: after a successful load the run-count text is "<|visibleRuns|> of
\* <|allRuns|> runs" for the current visibleRuns, and visibleRuns holds only ids
\* of runs in allRuns.
C7_RunCount ==
    Loaded =>
        /\ runCount = ToString(Cardinality(visibleRuns)) \o " of "
                        \o ToString(Len(allRuns)) \o " runs"
        /\ visibleRuns \subseteq RunIds(allRuns)

C7_Witness ==
    /\ Loaded
    /\ Len(allRuns) = 3
    /\ Cardinality(visibleRuns) = 1
    /\ runCount = "1 of 3 runs"

Flip(dir) == IF dir = "asc" THEN "desc" ELSE "asc"

\* C8: a click on a header other than the current sortColumn makes it the
\* sortColumn with direction ascending; a click on the current sortColumn keeps
\* the column and flips the direction.
C8_SortToggle ==
    [][\A column \in RelColumns \cup RawColumns :
         ClickHeader(column) =>
            /\ sortColumn' = column
            /\ sortDirection' = IF sortColumn = column THEN Flip(sortDirection) ELSE "asc"]_vars

C8_Witness ==
    /\ Loaded
    /\ sortColumn = "size_ratio"
    /\ sortDirection = "desc"
    /\ Len(sortTrail) = 2

\* C9: with visibleRuns unchanged, two clicks on the header of the column
\* sorted ascending (ascending, descending, ascending) give the row order of
\* the first ascending sort again, equal and undefined values included.
C9_AscDescAsc ==
    (Len(sortTrail) = 3 /\ sortTrail[1].dir = "asc")
        => /\ sortTrail[3].rel = sortTrail[1].rel
           /\ sortTrail[3].raw = sortTrail[1].raw

C9_Witness ==
    /\ Len(sortTrail) = 3
    /\ sortTrail[1].dir = "asc"
    /\ sortColumn = "accuracy_int8"
    /\ Cardinality(visibleRuns) = 3
    /\ sortTrail[2].rel # sortTrail[1].rel
    /\ sortTrail[3].rel = sortTrail[1].rel
    /\ \E i, j \in 1..Len(allRuns) :
          /\ i # j
          /\ allRuns[i]["accuracy_int8"] = allRuns[j]["accuracy_int8"]
          /\ ~IsNullish(allRuns[i]["accuracy_int8"])
    /\ \E i \in 1..Len(allRuns) : IsNullish(allRuns[i]["accuracy_int8"])

\* the value of the run in the sort column, as render() derives it
ColumnValue(id) == DeriveRun(RunOf(id))[sortColumn]

\* the total comparison: an undefined value is lower than every defined one
ValueLower(x, y) ==
    IF IsNullish(x) THEN ~IsNullish(y)
    ELSE ~IsNullish(y) /\ JsLess(x, y)

\* row i may stand before row j: in sort order, or equal and earlier in allRuns
InOrder(ids, i, j) ==
    LET x == ColumnValue(ids[i])
        y == ColumnValue(ids[j])
    IN IF sortDirection = "asc"
       THEN ValueLower(x, y) \/ (~ValueLower(y, x) /\ PosOf(ids[i]) < PosOf(ids[j]))
       ELSE ValueLower(y, x) \/ (~ValueLower(x, y) /\ PosOf(ids[i]) < PosOf(ids[j]))

StablySorted(ids) ==
    /\ \A i, j \in 1..Len(ids) : i < j => InOrder(ids, i, j)
    /\ sortDirection = "asc" =>
          \A i, j \in 1..Len(ids) :
              (IsNullish(ColumnValue(ids[i])) /\ ~IsNullish(ColumnValue(ids[j]))) => i < j

\* C10: the rows render() produces for a sort column are the visible runs,
\* stably sorted from allRuns order under the comparison in which an undefined
\* value is lower than every defined one: ascending, undefined rows precede all
\* defined rows, and rows with equal keys keep their allRuns order.
C10_StableSort ==
    (Loaded /\ sortColumn # NoColumn /\ visibleRuns # {})
        => /\ ShowsExactly(relTable, visibleRuns)
           /\ StablySorted(RowIds(relTable))
           /\ RowIds(rawTable) = RowIds(relTable)

C10_Witness ==
    /\ Loaded
    /\ sortColumn = "accuracy_int8"
    /\ sortDirection = "asc"
    /\ allRuns = <<Runb, RunaC, RunAb>>
    /\ RowIds(relTable) = << <<97, 67>>, <<98>>, <<65, 98>> >>
    /\ RowIds(rawTable) = RowIds(relTable)

\* a stands before b in the sequence of row ids
Before(ids, a, b) ==
    \E i, j \in 1..Len(ids) : i < j /\ ids[i] = a /\ ids[j] = b

\* C11: rows whose value in the sort column is undefined stand on the same side
\* of every row with a defined value under ascending and under descending
\* direction: a click that toggles the direction does not move them to the other
\* end of the table.
C11_UndefinedSameEnd ==
    \A k \in 1..(Len(sortTrail) - 1) :
        \A a, b \in IdSet(sortTrail[k].rel) :
            (IsNullish(ColumnValue(a)) /\ ~IsNullish(ColumnValue(b)))
                => (Before(sortTrail[k].rel, a, b) <=> Before(sortTrail[k + 1].rel, a, b))

-----------------------------------------------------------------------------
(* exportToCSV *)

\* the decimal digits of a natural number, as code units
RECURSIVE Digits(_)
Digits(n) == IF n < 10 THEN <<48 + n>> ELSE Digits(n \div 10) \o <<48 + (n % 10)>>

RECURSIVE PadUnits(_, _)
PadUnits(units, width) ==
    IF Len(units) >= width THEN units ELSE PadUnits(<<48>> \o units, width)

\* the code units of Number.prototype.toFixed(digits) for a finite number
FixedUnits(v, digits) ==
    LET p == Pow10(digits)
        scaled == (2 * Abs(v.n) * p + v.d) \div (2 * v.d)
        body == Digits(scaled \div p) \o <<46>> \o PadUnits(Digits(scaled % p), digits)
    IN IF v.n < 0 THEN <<45>> \o body ELSE body

\* r.x !== null && r.x !== undefined ? r.x.toFixed(digits) : ''
csvNumber(v, digits) == IF ~IsNullish(v) THEN FixedUnits(v, digits) ELSE <<>>

\* const headers = [...]
headers ==
    <<
       <<82, 117, 110>>,   \* Run
       <<70, 80, 51, 50, 32, 65, 99, 99>>,   \* FP32 Acc
       <<73, 78, 84, 56, 32, 65, 99, 99>>,   \* INT8 Acc
       <<65, 99, 99, 117, 114, 97, 99, 121, 32, 68, 114, 111, 112>>,   \* Accuracy Drop
       <<83, 105, 122, 101, 32, 82, 97, 116, 105, 111>>,   \* Size Ratio
       <<83, 112, 101, 101, 100, 117, 112>>,   \* Speedup
       <<77, 101, 109, 111, 114, 121, 32, 82, 101, 100, 117, 99, 116, 105, 111, 110, 32, 40, 77, 66, 41>>,   \* Memory Reduction (MB)
       <<69, 110, 101, 114, 103, 121, 32, 82, 101, 100, 117, 99, 116, 105, 111, 110, 32, 40, 109, 87, 41>>,   \* Energy Reduction (mW)
       <<77, 111, 100, 101, 108, 32, 83, 105, 122, 101, 32, 70, 80, 51, 50, 32, 40, 77, 66, 41>>,   \* Model Size FP32 (MB)
       <<77, 111, 100, 101, 108, 32, 83, 105, 122, 101, 32, 73, 78, 84, 56, 32, 40, 77, 66, 41>>   \* Model Size INT8 (MB)
    >>

\* the callback of visibleRunsData.map(...): the ten cells of one run
csvRow(r) ==
    <<r["run"].s,
      csvNumber(r["accuracy_fp32"], 4), csvNumber(r["accuracy_int8"], 4),
      csvNumber(r["accuracy_drop"], 4),
      csvNumber(r["size_ratio"], 2), csvNumber(r["speedup"], 2),
      csvNumber(r["memory_reduction_mb"], 4), csvNumber(r["energy_reduction_mw"], 4),
      csvNumber(r["model_size_fp32"], 2), csvNumber(r["model_size_int8"], 2)>>

\* String(cell).replace(/"/g, '""')
RECURSIVE DoubleQuotes(_)
DoubleQuotes(cell) ==
    IF cell = <<>> THEN <<>>
    ELSE (IF Head(cell) = 34 THEN <<34, 34>> ELSE <<Head(cell)>>) \o DoubleQuotes(Tail(cell))

quoteCell_NoDoubling(cell) == <<34>> \o cell \o <<34>>

\* '"' + String(cell).replace(/"/g, '""') + '"'
quoteCell(cell) == <<34>> \o DoubleQuotes(cell) \o <<34>>

\* Array.prototype.join
RECURSIVE join(_, _)
join(parts, sep) ==
    IF parts = <<>> THEN <<>>
    ELSE IF Len(parts) = 1 THEN parts[1]
    ELSE parts[1] \o sep \o join(Tail(parts), sep)

\* [headers, ...rows].map(row => row.map(quote).join(',')).join('\n')
csvContent(rows) ==
    LET table == <<headers>> \o rows
        csvLines == [i \in 1..Len(table) |->
                        join([j \in 1..Len(table[i]) |-> quoteCell(table[i][j])], <<44>>)]
    IN join(csvLines, <<10>>)

\* allRuns.filter(r => visibleRuns.has(r.run))
visibleRunsData == SelectSeq(allRuns, LAMBDA r : r["run"].s \in visibleRuns)

\* the most link.click() calls followed
MaxExports == 2

ExportToCSV_NoEmptyCheck ==
    /\ linkClicks < MaxExports
    /\ csvFile' = csvContent([i \in 1..Len(visibleRunsData) |-> csvRow(visibleRunsData[i])])
    /\ linkClicks' = linkClicks + 1
    /\ UNCHANGED alertText
    /\ UNCHANGED <<viewVars, ratioVars, serveVars, writerVars, chartVars, loggerVars, parserVars>>

\* exportToCSV()
ExportToCSV ==
    /\ IF visibleRunsData = <<>>
       THEN /\ alertText' = "No runs selected to export"
            /\ UNCHANGED <<csvFile, linkClicks>>
       ELSE /\ linkClicks < MaxExports
            /\ csvFile' = csvContent([i \in 1..Len(visibleRunsData) |->
                                         csvRow(visibleRunsData[i])])
            /\ linkClicks' = linkClicks + 1
            /\ UNCHANGED alertText
    /\ UNCHANGED <<viewVars, ratioVars, serveVars, writerVars, chartVars, loggerVars, parserVars>>

\* the longest run list fetched before an export
MaxExportRuns == 2

\* 'Q",' followed by a line feed: an id with a quote, a comma and a line break;
\* a size whose 2-decimal and 4-decimal roundings differ
RunQ ==
    [BlankRun(<<81, 34, 44, 10>>) EXCEPT
        !["accuracy_fp32"] = Num(99, 100), !["accuracy_int8"] = Num(1, 2),
        !["accuracy_drop"] = Num(49, 100),
        !["model_size_fp32"] = Num(12345, 1000), !["model_size_int8"] = Num(5, 1),
        !["memory_reduction_mb"] = Num(-3, 2)]

ExportPool == {RunAb, Runb, RunQ}

ExportLists ==
    {l \in UNION {[1..n -> ExportPool] : n \in 1..MaxExportRuns} :
        \A i, j \in 1..Len(l) : i # j => l[i] # l[j]}

NextExport ==
    \/ \E runs \in ExportLists : FetchRuns(runs)
    \/ \E i \in 1..Len(sidebar) : ToggleCheckbox(i)
    \/ SelectAll
    \/ DeselectAll
    \/ ExportToCSV

SpecExport == Init /\ [][NextExport]_vars

\* an RFC 4180 reader.  ScanQuoted and ScanBare read one field from position j
\* on, inside and outside double quotes: the field's text and the position of
\* the separator behind it
RECURSIVE ScanQuoted(_, _, _)
RECURSIVE ScanBare(_, _, _)
ScanQuoted(text, j, acc) ==
    IF j > Len(text) THEN [field |-> acc, next |-> j]
    ELSE IF text[j] # 34 THEN ScanQuoted(text, j + 1, Append(acc, text[j]))
    ELSE IF j < Len(text) /\ text[j + 1] = 34 THEN ScanQuoted(text, j + 2, Append(acc, 34))
    ELSE ScanBare(text, j + 1, acc)

ScanBare(text, j, acc) ==
    IF j > Len(text) \/ text[j] \in {44, 10} THEN [field |-> acc, next |-> j]
    ELSE IF text[j] = 34 THEN ScanQuoted(text, j + 1, acc)
    ELSE ScanBare(text, j + 1, Append(acc, text[j]))

\* the rows of fields of the text from position i on, behind the rows read and
\* the fields read of the current row
RECURSIVE ParseFrom(_, _, _, _)
ParseFrom(text, i, row, rows) ==
    LET f == ScanBare(text, i, <<>>)
    IN IF f.next > Len(text) THEN Append(rows, Append(row, f.field))
       ELSE IF text[f.next] = 44 THEN ParseFrom(text, f.next + 1, Append(row, f.field), rows)
       ELSE ParseFrom(text, f.next + 1, <<>>, Append(rows, Append(row, f.field)))

ParseCSV(text) == ParseFrom(text, 1, <<>>, <<>>)

\* what the tables display for a raw value and for a ratio (nothing for a
\* missing value)
ShownRaw(v) == IF IsNullish(v) THEN <<>> ELSE FixedUnits(v, 4)
ShownRatio(v) == IF IsNullish(v) THEN <<>> ELSE FixedUnits(v, 2) \o <<120>>

\* C12: an export that produces a file serializes exactly the visible runs, one
\* row per run under the fixed header row, and parsing the file recovers the run
\* ids and the rounded values the tables display: raw values with 4 decimals,
\* ratios with 2 decimals and a trailing "x".
C12_CsvRoundTrip ==
    [][(ExportToCSV /\ visibleRunsData # <<>>) =>
        LET parsed == ParseCSV(csvFile')
        IN /\ Len(parsed) = 1 + Len(visibleRunsData)
           /\ parsed[1] = headers
           /\ \A i \in 1..Len(visibleRunsData) :
                LET r == visibleRunsData[i]
                    shown == DeriveRun(r)
                    cells == parsed[i + 1]
                IN /\ Len(cells) = Len(headers)
                   /\ cells[1] = r["run"].s
                   /\ cells[2] = ShownRaw(shown["accuracy_fp32"])
                   /\ cells[3] = ShownRaw(shown["accuracy_int8"])
                   /\ cells[5] = ShownRatio(shown["size_ratio"])
                   /\ cells[6] = ShownRatio(shown["latency_ratio"])
                   /\ cells[9] = ShownRaw(shown["model_size_fp32"])
                   /\ cells[10] = ShownRaw(shown["model_size_int8"])]_vars

\* what does hold of every export that produces a file: the parsed file is the
\* header row and, in allRuns order, the ten cells of each visible run
CsvRowsRecovered ==
    [][(ExportToCSV /\ visibleRunsData # <<>>) =>
        ParseCSV(csvFile') =
            <<headers>> \o [i \in 1..Len(visibleRunsData) |-> csvRow(visibleRunsData[i])]]_vars

\* C13: exportToCSV called while visibleRuns is empty shows the message, makes
\* no Blob and clicks no download link, and leaves the view state as it was.
C13_EmptyExportRefused ==
    [][(ExportToCSV /\ visibleRuns = {}) =>
        /\ alertText' = "No runs selected to export"
        /\ UNCHANGED <<csvFile, linkClicks>>
        /\ UNCHANGED viewVars]_vars

C13_Witness ==
    /\ Loaded
    /\ visibleRuns = {}
    /\ alertText = "No runs selected to export"
    /\ linkClicks = 0
    /\ csvFile = NoFile
    /\ Len(relTable) = 2

-----------------------------------------------------------------------------
(* The server side: is_active and _serve_summary *)

(* Python values use the records of the JavaScript values: None is Null, a      *)
(* float is a number.  Bad is a stored value float() cannot coerce; Raise is    *)
(* an exception leaving an expression.                                           *)
Bad == [k |-> "bad", n |-> 0, d |-> 1, s |-> <<>>]
Raise == [k |-> "raise", n |-> 0, d |-> 1, s |-> <<>>]

\* float(x)
float(x) == IF x.k = "number" THEN x ELSE Raise

\* the truth value of None or of a float
Truthy(v) == v.k # "null" /\ ~(v.k = "number" /\ v.n = 0)

\* the tag suffixes each field of the record is read from, in the order of the
\* "or" chain
FieldTags(f) ==
    CASE f = "accuracy_fp32" -> <<"metrics/accuracy/fp32">>
      [] f = "accuracy_int8" -> <<"metrics/accuracy/int8">>
      [] f = "accuracy_drop" -> <<"compression/accuracy_drop">>
      [] f = "size_ratio" -> <<"compression/size_ratio">>
      [] f = "speedup" -> <<"compression/speedup">>
      [] f = "memory_reduction_mb" -> <<"compression/memory_reduction_mb">>
      [] f = "energy_reduction_mw" -> <<"compression/energy_reduction_mw">>
      [] f = "model_size_fp32" -> <<"performance/model_size_mb/fp32">>
      [] f = "model_size_int8" -> <<"performance/model_size_mb/int8">>
      [] f = "latency_fp32" -> <<"performance/latency_ms/fp32", "performance/latency/fp32">>
      [] f = "latency_int8" -> <<"performance/latency_ms/int8", "performance/latency/int8">>
      [] f = "memory_fp32" ->
            <<"performance/memory_usage_mb/fp32", "performance/memory_usage/fp32">>
      [] f = "memory_int8" ->
            <<"performance/memory_usage_mb/int8", "performance/memory_usage/int8">>
      [] f = "energy_fp32" ->
            <<"performance/energy_mw/fp32", "performance/energy_consumption_mw/fp32",
              "performance/energy/fp32">>
      [] f = "energy_int8" ->
            <<"performance/energy_mw/int8", "performance/energy_consumption_mw/int8",
              "performance/energy/int8">>

\* the tag suffixes t with "compression/" in t
CompressionSuffixes ==
    {"compression/accuracy_drop", "compression/size_ratio", "compression/speedup",
     "compression/memory_reduction_mb", "compression/energy_reduction_mw",
     "compression/size_reduction_pct", "compression/accuracy_retention_pct",
     "compression/energy_ratio"}

(* A run of the store: its name, the prefix its tags carry                      *)
(* ("<prefix>/<suffix>"), whether data_provider.read_scalars and                *)
(* multiplexer.GetAccumulator succeed for it, and the value series of its       *)
(* tags by suffix (no entry, or an empty series: the run has no such tag).      *)

\* the series of the run's tag with the given full name
Series(run, prefix, suffix) ==
    IF run.prefix = prefix /\ suffix \in DOMAIN run.tags THEN run.tags[suffix] ELSE <<>>

\* the suffixes of the tags the run holds
TagsOf(run) == {sfx \in DOMAIN run.tags : run.tags[sfx] # <<>>}

\* compression_tags = [t for t in ... if "compression/" in t] is not empty
HasCompressionTags(run) == TagsOf(run) \cap CompressionSuffixes # {}

\* get_scalar(tag_suffix) of the two paths: the last value of the tag
\* "<run_name>/<tag_suffix>"; the multiplexer's version catches every exception
get_scalar(api, run, tag_suffix) ==
    LET scalars == Series(run, run.name, tag_suffix)
        value == IF scalars # <<>> THEN float(scalars[Len(scalars)]) ELSE Null
    IN IF api = "multiplexer" /\ value = Raise THEN Null ELSE value

\* get_scalar(t1) or get_scalar(t2) or ...: the first truthy value, else the last
RECURSIVE OrChain(_, _, _, _)
OrChain(api, run, chain, i) ==
    LET value == get_scalar(api, run, chain[i])
    IN IF i = Len(chain) \/ value = Raise \/ Truthy(value) THEN value
       ELSE OrChain(api, run, chain, i + 1)

\* the dictionary appended to runs_data, or Raise if a get_scalar raised
RunRecord(api, run) ==
    LET record == [f \in Fields |->
                     IF f = "run" THEN Str(run.name)
                     ELSE OrChain(api, run, FieldTags(f), 1)]
    IN IF \E f \in NumFields : record[f] = Raise THEN Raise ELSE record

\* the branch "if data_provider:": the runs list, or the exception that left it
FromDataProvider(st) ==
    LET listed == SelectSeq(st.runs, HasCompressionTags)
    IN IF st.data_provider = "list_raises"
       THEN [raised |-> TRUE, runs |-> <<>>, error |-> <<"list_scalars failed">>]
       ELSE IF \E i \in 1..Len(listed) : ~listed[i].dpRead
       THEN [raised |-> TRUE, runs |-> <<>>, error |-> <<"read_scalars failed">>]
       ELSE IF \E i \in 1..Len(listed) : RunRecord("data_provider", listed[i]) = Raise
       THEN [raised |-> TRUE, runs |-> <<>>, error |-> <<"could not convert to float">>]
       ELSE [raised |-> FALSE,
             runs |-> [i \in 1..Len(listed) |-> RunRecord("data_provider", listed[i])],
             error |-> <<>>]

\* the branch "elif multiplexer:": a run whose accumulator raises is skipped
FromMultiplexer(st) ==
    LET kept == SelectSeq(st.runs, LAMBDA run : run.muxRead /\ HasCompressionTags(run))
    IN IF st.multiplexer = "runs_raises"
       THEN [raised |-> TRUE, runs |-> <<>>, error |-> <<"Runs failed">>]
       ELSE [raised |-> FALSE,
             runs |-> [i \in 1..Len(kept) |-> RunRecord("multiplexer", kept[i])],
             error |-> <<>>]

\* the try block of _serve_summary
TrySummary(st) ==
    IF st.data_provider # "absent" THEN FromDataProvider(st)
    ELSE IF st.multiplexer # "absent" THEN FromMultiplexer(st)
    ELSE [raised |-> FALSE, runs |-> <<>>,
          error |-> <<"neither data_provider nor multiplexer available">>]

\* _serve_summary: the try block, "except Exception as e", and http_util.Respond
_serve_summary(st) ==
    LET attempt == TrySummary(st)
    IN IF attempt.raised
       THEN [raised |-> FALSE, status |-> 200, runs |-> <<>>, error |-> attempt.error]
       ELSE [raised |-> FALSE, status |-> 200, runs |-> attempt.runs, error |-> attempt.error]

\* is_active: every path returns True
is_active(st) ==
    IF st.multiplexer = "absent" THEN "True"
    ELSE IF st.multiplexer = "runs_raises" THEN "True"
    ELSE IF st.runs = <<>> THEN "True"
    ELSE IF \E i \in 1..Len(st.runs) :
                /\ st.runs[i].muxRead
                /\ Series(st.runs[i], st.runs[i].name, "compression/speedup") # <<>>
    THEN "True"
    ELSE "True"

-----------------------------------------------------------------------------
(* The server side: the stores and the requests *)

StoreRun(name, prefix, dpRead, muxRead, tags) ==
    [name |-> name, prefix |-> prefix, dpRead |-> dpRead, muxRead |-> muxRead, tags |-> tags]

\* the run "m": an accuracy whose last value is 0 or cannot be coerced, a
\* speedup, a latency_ms whose last or first value is 0 or which cannot be
\* coerced, and the older latency tag
RunsM ==
    {StoreRun("m", "m", dpRead, muxRead,
              [sfx \in {"metrics/accuracy/fp32", "compression/speedup",
                        "performance/latency_ms/int8", "performance/latency/int8"} |->
                  CASE sfx = "metrics/accuracy/fp32" -> acc
                    [] sfx = "compression/speedup" -> spd
                    [] sfx = "performance/latency_ms/int8" -> lms
                    [] sfx = "performance/latency/int8" -> lat]) :
        dpRead \in BOOLEAN, muxRead \in BOOLEAN,
        acc \in {<<>>, <<Num(1, 2), Num(0, 1)>>, <<Bad>>},
        spd \in {<<>>, <<Num(2, 1)>>},
        lms \in {<<>>, <<Num(4, 1), Num(0, 1)>>, <<Num(0, 1), Num(4, 1)>>, <<Bad>>},
        lat \in {<<>>, <<Num(7, 1)>>}}

\* the run "n": an accuracy, and possibly a compression tag other than those
\* the summary reads; its tags carry its own name or the name of a model
RunsN ==
    {StoreRun("n", prefix, TRUE, TRUE,
              [sfx \in {"metrics/accuracy/fp32", "compression/size_reduction_pct"} |->
                  IF sfx = "metrics/accuracy/fp32" THEN <<Num(9, 10)>> ELSE pct]) :
        prefix \in {"n", "resnet"}, pct \in {<<>>, <<Num(95, 1)>>}}

Stores ==
    [data_provider : {"absent", "ok", "list_raises"},
     multiplexer : {"absent", "ok", "runs_raises"},
     runs : {<<>>} \cup {<<m>> : m \in RunsM} \cup {<<n>> : n \in RunsN}
              \cup {<<m, n>> : m \in RunsM, n \in RunsN}
              \cup {<<n, m>> : m \in RunsM, n \in RunsN}]

RatioIdle ==
    /\ rec = NoRecord
    /\ derived = NoRecord
    /\ ratioDone = FALSE

InitServe ==
    /\ ViewIdle
    /\ RatioIdle
    /\ ExportIdle
    /\ WriterIdle
    /\ ChartIdle
    /\ LoggerIdle
    /\ ParserIdle
    /\ store \in Stores
    /\ response = NoResponse
    /\ active = "unasked"

\* a GET of the summary route
ServeSummary ==
    /\ response = NoResponse
    /\ response' = _serve_summary(store)
    /\ UNCHANGED <<store, active>>
    /\ UNCHANGED <<viewVars, ratioVars, exportVars, writerVars, chartVars, loggerVars, parserVars>>

\* the host asks whether the plugin is active
AskActive ==
    /\ active = "unasked"
    /\ active' = is_active(store)
    /\ UNCHANGED <<store, response>>
    /\ UNCHANGED <<viewVars, ratioVars, exportVars, writerVars, chartVars, loggerVars, parserVars>>

NextServe ==
    \/ ServeSummary
    \/ AskActive

SpecServe == InitServe /\ [][NextServe]_vars

Served == response # NoResponse

-----------------------------------------------------------------------------
(* Claims about the server side *)

\* the interface _serve_summary uses raises while listing the runs or while
\* reading one of them
ReadFails(st) ==
    IF st.data_provider # "absent"
    THEN \/ st.data_provider = "list_raises"
         \/ \E i \in 1..Len(st.runs) : HasCompressionTags(st.runs[i]) /\ ~st.runs[i].dpRead
    ELSE IF st.multiplexer # "absent"
    THEN \/ st.multiplexer = "runs_raises"
         \/ \E i \in 1..Len(st.runs) : ~st.runs[i].muxRead
    ELSE FALSE

\* C14: whatever the state of the upstream store, _serve_summary raises nothing
\* and answers with status 200 and a body whose "runs" is a list; without any
\* interface, and on any failure listing or reading the store, the list is
\* empty and an "error" message is present.
C14_EmptyWithError ==
    Served =>
        /\ ~response.raised
        /\ response.status = 200
        /\ DOMAIN response.runs = 1..Len(response.runs)
        /\ (ReadFails(store)
              \/ (store.data_provider = "absent" /\ store.multiplexer = "absent"))
             => (response.runs = <<>> /\ response.error # <<>>)

\* the run of the store with the given name
StoreRunOf(name) == CHOOSE run \in IdSet(store.runs) : Str(run.name) = name

\* the last values of those tags of the field that hold a value
HeldValues(run, f) ==
    {Series(run, run.name, FieldTags(f)[i])[Len(Series(run, run.name, FieldTags(f)[i]))] :
        i \in {j \in 1..Len(FieldTags(f)) : Series(run, run.name, FieldTags(f)[j]) # <<>>}}

\* C15: every field of every served record is the most recent value of a tag
\* "<run>/<suffix>" of the field that holds a value, a most recent 0 included,
\* and is null only when no tag of the field holds a value (fields with a value
\* that cannot be coerced aside).
C15_MostRecentValue ==
    Served =>
        \A i \in 1..Len(response.runs) : \A f \in NumFields :
            LET run == StoreRunOf(response.runs[i]["run"])
                held == HeldValues(run, f)
            IN Bad \notin held =>
                 IF held = {} THEN response.runs[i][f] = Null
                 ELSE response.runs[i][f] \in held

\* the data_provider raises while listing or reading
ProviderFails(st) ==
    \/ st.data_provider = "list_raises"
    \/ /\ st.data_provider = "ok"
       /\ \E i \in 1..Len(st.runs) : HasCompressionTags(st.runs[i]) /\ ~st.runs[i].dpRead

\* C16: whenever the data_provider is absent or fails to list or read while a
\* multiplexer is available, the response carries the records read through the
\* multiplexer.
C16_FallsBackToMultiplexer ==
    (Served /\ store.multiplexer = "ok"
        /\ (store.data_provider = "absent" \/ ProviderFails(store)))
        => /\ response.runs = FromMultiplexer(store).runs
           /\ response.error = <<>>

\* the store with every tag whose most recent value cannot be coerced removed
WithoutBadValues(st) ==
    [st EXCEPT !.runs =
        [i \in 1..Len(st.runs) |->
            [st.runs[i] EXCEPT !.tags =
                [sfx \in DOMAIN st.runs[i].tags |->
                    LET series == st.runs[i].tags[sfx]
                    IN IF series # <<>> /\ series[Len(series)] = Bad THEN <<>>
                       ELSE series]]]]

\* C17: on both paths a value that cannot be coerced is treated as missing for
\* its field only: the response is the one the store would get without that
\* value, the other fields of the run and the other runs included.
C17_BadValueIsMissing ==
    Served => response = _serve_summary(WithoutBadValues(store))

\* C18: is_active returns True when at least one run of the multiplexer holds
\* compression-tagged data, and False when there is no multiplexer, no run, or
\* no run with a compression tag.
C18_ActiveIffCompressionData ==
    active # "unasked" =>
        active = IF /\ store.multiplexer = "ok"
                    /\ \E i \in 1..Len(store.runs) : HasCompressionTags(store.runs[i])
                 THEN "True" ELSE "False"

-----------------------------------------------------------------------------
(* CompressionWriter: log_compression_ratios and log_energy_comparison *)

\* the keys of fp32_metrics and int8_metrics the two methods read
MetricKeys == {"model_size_mb", "latency_mean_ms", "memory_usage_mb", "accuracy",
               "energy_consumption_mw"}

\* "key" in metrics: a dictionary is a function on MetricKeys, Null for no key
In(key, dict) == dict[key] # Null

\* a / b of Python: ZeroDivisionError for a zero divisor
PyDiv(a, b) == IF b.n = 0 THEN Raise ELSE Num(a.n * b.d, a.d * b.n)

PySub(a, b) == Num(a.n * b.d - b.n * a.d, a.d * b.d)

PyMul(a, b) == IF a = Raise THEN Raise ELSE Num(a.n * b.n, a.d * b.d)

\* self.add_scalar(f"{model_name}/{suffix}", value, step)
Scalar(model_name, suffix, value) == [prefix |-> model_name, suffix |-> suffix, value |-> value]

\* the statements of a method in order: each is a scalar to write, or Raise;
\* the scalars before the first Raise are written
Writes(stmts) ==
    {stmts[i] : i \in {j \in 1..Len(stmts) : \A k \in 1..j : stmts[k] # Raise}}
Raises(stmts) == \E i \in 1..Len(stmts) : stmts[i] = Raise

\* log_compression_ratios(model_name, fp32_metrics, int8_metrics, step)
log_compression_ratios(model_name, fp32, int8) ==
    LET reduction == PyMul(PyDiv(PySub(fp32["model_size_mb"], int8["model_size_mb"]),
                                 fp32["model_size_mb"]), Num(100, 1))
        size == IF In("model_size_mb", fp32) /\ In("model_size_mb", int8)
                   /\ int8["model_size_mb"].n > 0
                THEN <<Scalar(model_name, "compression/size_ratio",
                              PyDiv(fp32["model_size_mb"], int8["model_size_mb"])),
                       IF reduction = Raise THEN Raise
                       ELSE Scalar(model_name, "compression/size_reduction_pct", reduction)>>
                ELSE <<>>
        speedup == IF In("latency_mean_ms", fp32) /\ In("latency_mean_ms", int8)
                      /\ int8["latency_mean_ms"].n > 0
                   THEN <<Scalar(model_name, "compression/speedup",
                                 PyDiv(fp32["latency_mean_ms"], int8["latency_mean_ms"]))>>
                   ELSE <<>>
        memory == IF In("memory_usage_mb", fp32) /\ In("memory_usage_mb", int8)
                  THEN <<Scalar(model_name, "compression/memory_reduction_mb",
                                PySub(fp32["memory_usage_mb"], int8["memory_usage_mb"]))>>
                  ELSE <<>>
        accuracy == IF In("accuracy", fp32) /\ In("accuracy", int8)
                    THEN <<Scalar(model_name, "compression/accuracy_drop",
                                  PySub(fp32["accuracy"], int8["accuracy"]))>>
                         \o (IF fp32["accuracy"].n > 0
                             THEN <<Scalar(model_name, "compression/accuracy_retention_pct",
                                           PyMul(PyDiv(int8["accuracy"], fp32["accuracy"]),
                                                 Num(100, 1)))>>
                             ELSE <<>>)
                    ELSE <<>>
    IN size \o speedup \o memory \o accuracy

\* log_energy_comparison(model_name, fp32_metrics, int8_metrics, step)
log_energy_comparison(model_name, fp32, int8) ==
    IF In("energy_consumption_mw", fp32) /\ In("energy_consumption_mw", int8)
    THEN <<Scalar(model_name, "performance/energy_mw/fp32", fp32["energy_consumption_mw"]),
           Scalar(model_name, "performance/energy_mw/int8", int8["energy_consumption_mw"]),
           Scalar(model_name, "compression/energy_reduction_mw",
                  PySub(fp32["energy_consumption_mw"], int8["energy_consumption_mw"]))>>
         \o (IF int8["energy_consumption_mw"].n > 0
             THEN <<Scalar(model_name, "compression/energy_ratio",
                           PyDiv(fp32["energy_consumption_mw"],
                                 int8["energy_consumption_mw"]))>>
             ELSE <<>>)
    ELSE <<>>

\* the values a metric takes: no key, zero, a positive number
MetricValues(key) ==
    CASE key = "memory_usage_mb" -> {Null, Num(64, 1)}
      [] key = "accuracy" -> {Null, Num(0, 1), Num(9, 10)}
      [] OTHER -> {Null, Num(0, 1), Num(2, 1)}

MetricDicts ==
    [model_size_mb : MetricValues("model_size_mb"),
     latency_mean_ms : MetricValues("latency_mean_ms"),
     memory_usage_mb : MetricValues("memory_usage_mb"),
     accuracy : MetricValues("accuracy"),
     energy_consumption_mw : MetricValues("energy_consumption_mw")]

InitWriter ==
    /\ ViewIdle
    /\ RatioIdle
    /\ ExportIdle
    /\ ServeIdle
    /\ ChartIdle
    /\ LoggerIdle
    /\ ParserIdle
    /\ metrics \in [fp32 : MetricDicts, int8 : MetricDicts]
    /\ written = {}
    /\ writerCall = "none"

\* writer.log_compression_ratios("m", fp32_metrics, int8_metrics)
LogCompressionRatios ==
    /\ writerCall = "none"
    /\ \E stmts \in {log_compression_ratios("m", metrics.fp32, metrics.int8)} :
          /\ written' = Writes(stmts)
          /\ writerCall' = IF Raises(stmts) THEN "log_compression_ratios raised"
                           ELSE "log_compression_ratios returned"
    /\ UNCHANGED metrics
    /\ UNCHANGED <<viewVars, ratioVars, exportVars, serveVars, chartVars, loggerVars, parserVars>>

\* writer.log_energy_comparison("m", fp32_metrics, int8_metrics)
LogEnergyComparison ==
    /\ writerCall = "none"
    /\ \E stmts \in {log_energy_comparison("m", metrics.fp32, metrics.int8)} :
          /\ written' = Writes(stmts)
          /\ writerCall' = IF Raises(stmts) THEN "log_energy_comparison raised"
                           ELSE "log_energy_comparison returned"
    /\ UNCHANGED metrics
    /\ UNCHANGED <<viewVars, ratioVars, exportVars, serveVars, chartVars, loggerVars, parserVars>>

NextWriter ==
    \/ LogCompressionRatios
    \/ LogEnergyComparison

SpecWriter == InitWriter /\ [][NextWriter]_vars

\* the metric each ratio or percentage divides by
Denominator(suffix) ==
    CASE suffix = "compression/size_ratio" -> metrics.int8["model_size_mb"]
      [] suffix = "compression/size_reduction_pct" -> metrics.fp32["model_size_mb"]
      [] suffix = "compression/speedup" -> metrics.int8["latency_mean_ms"]
      [] suffix = "compression/accuracy_retention_pct" -> metrics.fp32["accuracy"]
      [] suffix = "compression/energy_ratio" -> metrics.int8["energy_consumption_mw"]

Quotients == {"compression/size_ratio", "compression/size_reduction_pct",
              "compression/speedup", "compression/accuracy_retention_pct",
              "compression/energy_ratio"}

\* C19: for all non-negative metric values, zeros included, the two calls
\* complete without raising, and a ratio or percentage is written only when its
\* denominator is a nonzero number.
C19_NoDivisionByZero ==
    writerCall # "none" =>
        /\ writerCall \in {"log_compression_ratios returned", "log_energy_comparison returned"}
        /\ \A w \in written :
             w.suffix \in Quotients =>
                 (IsNum(Denominator(w.suffix)) /\ Denominator(w.suffix).n # 0)

-----------------------------------------------------------------------------
(* The initial fetch: every outcome *)

\* the body parses and data.runs[p] is null: "allRuns = data.runs" is done, the
\* forEach filling visibleRuns throws at element p, and the catch handler shows
\* the error
FetchThrows(runs, p) ==
    /\ fetchState = "pending"
    /\ p \in 1..Len(runs)
    /\ fetchState' = "settled"
    /\ allRuns' = [runs EXCEPT ![p] = Null]
    /\ visibleRuns' = visibleRuns \cup RunIds(SubSeq(runs, 1, p - 1))
    /\ rootView' = "error"
    /\ UNCHANGED <<runColors, searchTerm, sortColumn, sortDirection,
                   sidebar, runCount, chartsGrid, relTable, rawTable, sortTrail>>
    /\ UNCHANGED offViewVars

\* the promise of fetch(apiUrl) settles and the handlers of the chain run
FetchSettles ==
    \/ \E runs \in RunLists : FetchRuns(runs)
    \/ FetchEmpty
    \/ FetchError
    \/ \E runs \in RunLists : \E p \in 1..Len(runs) : FetchThrows(runs, p)

\* the outcomes of the fetch, and the handlers of the sidebar on the loaded view
NextFetch ==
    \/ FetchSettles
    \/ \E i \in 1..Len(sidebar) : ToggleCheckbox(i)
    \/ \E text \in SearchTexts : EditSearch(text)
    \/ SelectAll
    \/ DeselectAll

\* the view with every outcome of the fetch; the pending fetch settles
SpecFetch == Init /\ [][NextFetch]_vars /\ WF_vars(FetchSettles)

\* C20: whatever the outcome of the initial fetch, the view eventually leaves
\* "Loading compression data..." and, from the moment the fetch has settled,
\* always shows the data, "No compression data found." or an error.
C20_LeavesLoading ==
    /\ <>(rootView # "loading")
    /\ [](fetchState = "settled" => rootView \in {"cards", "empty", "error"})

C20_Witness ==
    /\ fetchState = "settled"
    /\ rootView = "error"
    /\ Len(allRuns) = 2
    /\ allRuns[2] = Null
    /\ Cardinality(visibleRuns) = 1

-----------------------------------------------------------------------------
(* The chart card: renderChartsGrid, the expand and collapse handlers and the   *)
(* deferred redraws                                                             *)

\* chartConfigs
chartConfigs ==
    <<[id |-> "paretoChart", xKey |-> "model_size"],
      [id |-> "latencyChart", xKey |-> "latency"],
      [id |-> "memoryChart", xKey |-> "memory"],
      [id |-> "energyChart", xKey |-> "energy"]>>

ChartIds == {chartConfigs[i].id : i \in 1..Len(chartConfigs)}

\* the data-x-key of the chart element
XKeyOf(chartId) ==
    chartConfigs[CHOOSE i \in 1..Len(chartConfigs) : chartConfigs[i].id = chartId].xKey

\* xKeyMap[xKey]
xKeyMap(xKey) ==
    CASE xKey = "model_size" -> [fp32 |-> "model_size_fp32", int8 |-> "model_size_int8"]
      [] xKey = "latency" -> [fp32 |-> "latency_fp32", int8 |-> "latency_int8"]
      [] xKey = "memory" -> [fp32 |-> "memory_fp32", int8 |-> "memory_int8"]
      [] xKey = "energy" -> [fp32 |-> "energy_fp32", int8 |-> "energy_int8"]

\* the element of fp32Data or int8Data pushed for run r
Point(r, xField, yField, colors) ==
    [run |-> r["run"].s, x |-> r[xField], y |-> r[yField],
     color |-> ColorOf(colors, r["run"].s)]

renderChartWithD3_AnyValue(runs, xKey, colors) ==
    LET fields == xKeyMap(xKey)
        fp32Data == [i \in 1..Len(runs) |->
                        Point(runs[i], fields.fp32, "accuracy_fp32", colors)]
        int8Data == [i \in 1..Len(runs) |->
                        Point(runs[i], fields.int8, "accuracy_int8", colors)]
    IN [runs |-> [i \in 1..Len(runs) |-> runs[i]["run"].s],
        fp32 |-> fp32Data, int8 |-> int8Data, text |-> ""]

\* renderChartWithD3(runs, chart, xKey, xLabel): the two series drawn (createChart
\* and createNativeSVGChart draw one mark per element of fp32Data and int8Data),
\* or the text shown instead of them
renderChartWithD3(runs, xKey, colors) ==
    LET fields == xKeyMap(xKey)
        withFp32 == SelectSeq(runs, LAMBDA r :
                        ~IsNullish(r[fields.fp32]) /\ ~IsNullish(r["accuracy_fp32"]))
        withInt8 == SelectSeq(runs, LAMBDA r :
                        ~IsNullish(r[fields.int8]) /\ ~IsNullish(r["accuracy_int8"]))
        fp32Data == [i \in 1..Len(withFp32) |->
                        Point(withFp32[i], fields.fp32, "accuracy_fp32", colors)]
        int8Data == [i \in 1..Len(withInt8) |->
                        Point(withInt8[i], fields.int8, "accuracy_int8", colors)]
    IN [runs |-> [i \in 1..Len(runs) |-> runs[i]["run"].s],
        fp32 |-> fp32Data, int8 |-> int8Data,
        text |-> IF fp32Data = <<>> /\ int8Data = <<>>
                 THEN "No data available for chart" ELSE ""]

\* a chart element nothing was drawn into
EmptyChart == [runs |-> <<>>, fp32 |-> <<>>, int8 |-> <<>>, text |-> ""]

(* A pending timer: the function to call ("renderAll": the callback set by      *)
(* renderChartsGrid; "renderOne": the callback set by the expand handler;       *)
(* "draw": the callback set by renderParetoChart), the delay it was set with,   *)
(* the time left, the ids of the runs its closure holds (run objects are never  *)
(* modified, so the list is kept by its ids), the chart, and for "draw"         *)
(* whether the chart element it holds is still in the document.                 *)
Timer(fn, delay, runs, chart) ==
    [fn |-> fn, delay |-> delay, due |-> delay, runs |-> runs, chart |-> chart,
     attached |-> TRUE]

\* the delays of the setTimeout calls, in milliseconds
GridDelay == 10
DrawDelay == 10
ExpandDelay == 150

\* the most setTimeout callbacks pending when a handler may run
MaxPending == 2

\* the run objects of a closure
ClosureRuns(ids) == [i \in 1..Len(ids) |-> DeriveRun(RunOf(ids[i]))]

\* grid.innerHTML = '': the chart elements held by pending callbacks leave the
\* document
Detached(pending) == [i \in 1..Len(pending) |-> [pending[i] EXCEPT !.attached = FALSE]]

renderChartsGrid_FirstRunOnly(runs) ==
    IF runs = <<>>
    THEN UNCHANGED <<gridRuns, expanded, charts, timers>>
    ELSE /\ gridRuns' = <<runs[1]["run"].s>>
         /\ expanded' = {}
         /\ charts' = [c \in ChartIds |-> EmptyChart]
         /\ timers' = Append(Detached(timers),
                             Timer("renderAll", GridDelay, <<runs[1]["run"].s>>, ""))

\* renderChartsGrid(runs), but for the display of #chartsGrid set by render: an
\* empty list leaves the grid as it is; otherwise the grid is emptied, the card
\* and the four chart wrappers are built anew and the redraw is set
renderChartsGrid(runs) ==
    IF runs = <<>>
    THEN UNCHANGED <<gridRuns, expanded, charts, timers>>
    ELSE /\ gridRuns' = [i \in 1..Len(runs) |-> runs[i]["run"].s]
         /\ expanded' = {}
         /\ charts' = [c \in ChartIds |-> EmptyChart]
         /\ timers' = Append(Detached(timers),
                             Timer("renderAll", GridDelay,
                                   [i \in 1..Len(runs) |-> runs[i]["run"].s], ""))

\* the cards render() writes: the chart card and the two table cards are
\* replaced by new ones, not collapsed, unless the list is empty
CardIds == {"paretoChartCard", "relativeMetricsCard", "rawMetricsCard"}

renderCards(runs) == collapsed' = IF runs = <<>> THEN collapsed ELSE {}

\* render() with the chart card
renderWithCharts ==
    /\ render
    /\ \E runs \in {RenderRuns(allRuns', visibleRuns', sortColumn', sortDirection')} :
          /\ renderChartsGrid(runs)
          /\ renderCards(runs)

(* The chart card: the handlers, the timers and the clock *)

offChartVars == <<ratioVars, exportVars, serveVars, writerVars, loggerVars, parserVars>>

\* the fetch of FetchRuns, with the chart card
ChartsFetchRuns(runs) ==
    /\ fetchState = "pending"
    /\ fetchState' = "settled"
    /\ allRuns' = runs
    /\ visibleRuns' = visibleRuns \cup RunIds(runs)
    /\ rootView' = "cards"
    /\ runColors' = assignRunColors(runs)
    /\ UNCHANGED <<searchTerm, sortColumn, sortDirection>>
    /\ renderSidebar
    /\ renderWithCharts
    /\ sortTrail' = <<Snapshot>>
    /\ UNCHANGED offChartVars

\* the change handler of ToggleCheckbox, with the chart card
ChartsToggleCheckbox(i) ==
    /\ i \in 1..Len(sidebar)
    /\ Len(timers) < MaxPending
    /\ LET nowChecked == ~sidebar[i].checked
           id == sidebar[i].run
       IN /\ sidebar' = [sidebar EXCEPT ![i].checked = nowChecked]
          /\ visibleRuns' = IF nowChecked THEN visibleRuns \cup {id} ELSE visibleRuns \ {id}
    /\ UNCHANGED <<allRuns, runColors, searchTerm, sortColumn, sortDirection,
                   fetchState, rootView>>
    /\ updateRunCount
    /\ renderWithCharts
    /\ sortTrail' = <<Snapshot>>
    /\ UNCHANGED offChartVars

\* the click handler of selectAllBtn, with the chart card
ChartsSelectAll ==
    /\ rootView = "cards"
    /\ Len(timers) < MaxPending
    /\ visibleRuns' = visibleRuns \cup RunIds(allRuns)
    /\ UNCHANGED <<allRuns, runColors, searchTerm, sortColumn, sortDirection,
                   fetchState, rootView>>
    /\ renderSidebar
    /\ renderWithCharts
    /\ sortTrail' = <<Snapshot>>
    /\ UNCHANGED offChartVars

\* the click handler of deselectAllBtn, with the chart card
ChartsDeselectAll ==
    /\ rootView = "cards"
    /\ visibleRuns' = {}
    /\ UNCHANGED <<allRuns, runColors, searchTerm, sortColumn, sortDirection,
                   fetchState, rootView>>
    /\ renderSidebar
    /\ renderWithCharts
    /\ sortTrail' = <<Snapshot>>
    /\ UNCHANGED offChartVars

ClickExpand_KeepOthers(chartId) ==
    /\ chartsGrid = "flex"
    /\ "paretoChartCard" \notin collapsed
    /\ Len(timers) < MaxPending
    /\ expanded' = IF chartId \in expanded THEN expanded \ {chartId}
                   ELSE expanded \cup {chartId}
    /\ timers' = Append(timers, Timer("renderOne", ExpandDelay, gridRuns, chartId))
    /\ UNCHANGED <<gridRuns, collapsed, charts>>
    /\ UNCHANGED <<viewVars, offChartVars>>

\* the click handler of the expand button of a chart of the grid
ClickExpand(chartId) ==
    /\ chartsGrid = "flex"
    /\ "paretoChartCard" \notin collapsed
    /\ Len(timers) < MaxPending
    /\ expanded' = IF chartId \in expanded THEN expanded \ {chartId} ELSE {chartId}
    /\ timers' = Append(timers, Timer("renderOne", ExpandDelay, gridRuns, chartId))
    /\ UNCHANGED <<gridRuns, collapsed, charts>>
    /\ UNCHANGED <<viewVars, offChartVars>>

\* the card is in the document and displayed
CardShown(card) ==
    CASE card = "paretoChartCard" -> chartsGrid = "flex"
      [] card = "relativeMetricsCard" -> relTable # <<>>
      [] card = "rawMetricsCard" -> rawTable # <<>>

\* the click handler of the header of a card
ClickCardHeader(card) ==
    /\ CardShown(card)
    /\ collapsed' = IF card \in collapsed THEN collapsed \ {card} ELSE collapsed \cup {card}
    /\ UNCHANGED <<gridRuns, expanded, charts, timers>>
    /\ UNCHANGED <<viewVars, offChartVars>>

\* renderParetoChart(runs, chartId, xKey, xLabel): the timers it sets
renderParetoChart(runs, chartId) ==
    IF runs = <<>> \/ chartId \notin DOMAIN charts THEN <<>>
    ELSE <<Timer("draw", DrawDelay, runs, chartId)>>

Without(pending, i) == SubSeq(pending, 1, i - 1) \o SubSeq(pending, i + 1, Len(pending))

\* a timer runs once its time has passed and every timer set before it with a
\* delay not longer than its own has run
CanFire(i) ==
    /\ timers[i].due = 0
    /\ \A j \in 1..(i - 1) : timers[j].delay > timers[i].delay

\* the callback set by renderChartsGrid: renderParetoChart for the four charts
FireRenderAll(i) ==
    /\ i \in 1..Len(timers)
    /\ timers[i].fn = "renderAll"
    /\ CanFire(i)
    /\ timers' = Without(timers, i)
                    \o renderParetoChart(timers[i].runs, chartConfigs[1].id)
                    \o renderParetoChart(timers[i].runs, chartConfigs[2].id)
                    \o renderParetoChart(timers[i].runs, chartConfigs[3].id)
                    \o renderParetoChart(timers[i].runs, chartConfigs[4].id)
    /\ UNCHANGED <<gridRuns, expanded, collapsed, charts>>
    /\ UNCHANGED <<viewVars, offChartVars>>

\* the callback set by the expand handler: renderParetoChart for its chart
FireRenderOne(i) ==
    /\ i \in 1..Len(timers)
    /\ timers[i].fn = "renderOne"
    /\ CanFire(i)
    /\ timers' = Without(timers, i) \o renderParetoChart(timers[i].runs, timers[i].chart)
    /\ UNCHANGED <<gridRuns, expanded, collapsed, charts>>
    /\ UNCHANGED <<viewVars, offChartVars>>

\* the callback set by renderParetoChart: renderChartWithD3 on the element found
\* when the timer was set
FireDraw(i) ==
    /\ i \in 1..Len(timers)
    /\ timers[i].fn = "draw"
    /\ CanFire(i)
    /\ timers' = Without(timers, i)
    /\ charts' = IF timers[i].attached
                 THEN [charts EXCEPT ![timers[i].chart] =
                          renderChartWithD3(ClosureRuns(timers[i].runs),
                                            XKeyOf(timers[i].chart), runColors)]
                 ELSE charts
    /\ UNCHANGED <<gridRuns, expanded, collapsed>>
    /\ UNCHANGED <<viewVars, offChartVars>>

\* time passes until the next pending timer is due
Advance ==
    /\ timers # <<>>
    /\ \A i \in 1..Len(timers) : timers[i].due > 0
    /\ \E step \in {timers[i].due : i \in 1..Len(timers)} :
          /\ \A i \in 1..Len(timers) : step <= timers[i].due
          /\ timers' = [i \in 1..Len(timers) |->
                           [timers[i] EXCEPT !.due = timers[i].due - step]]
    /\ UNCHANGED <<gridRuns, expanded, collapsed, charts>>
    /\ UNCHANGED <<viewVars, offChartVars>>

\* the most runs of a list the chart card is fed
MaxChartRuns == 2

\* the run lists fetched for the chart card: the first runs of "aC", "b", "Ab", "Ba"
ChartLists == {SubSeq(<<RunaC, Runb, RunAb, RunBa>>, 1, n) : n \in 1..MaxChartRuns}

\* the charts whose expand button is clicked, and the card headers clicked
ChartsClicked == {"paretoChart", "energyChart"}
CardsClicked == {"paretoChartCard", "rawMetricsCard"}

NextCharts ==
    \/ \E runs \in ChartLists : ChartsFetchRuns(runs)
    \/ \E i \in 1..Len(sidebar) : ChartsToggleCheckbox(i)
    \/ ChartsSelectAll
    \/ ChartsDeselectAll
    \/ \E chartId \in ChartsClicked : ClickExpand(chartId)
    \/ \E card \in CardsClicked : ClickCardHeader(card)
    \/ UpdateThemeColors
    \/ \E i \in 1..Len(timers) : FireRenderAll(i)
    \/ \E i \in 1..Len(timers) : FireRenderOne(i)
    \/ \E i \in 1..Len(timers) : FireDraw(i)
    \/ Advance

SpecCharts == Init /\ [][NextCharts]_vars

-----------------------------------------------------------------------------
(* Claims about the chart card *)

\* C21: after a successful load the charts grid is displayed exactly when
\* visibleRuns is not empty; a grid that is displayed was built from the runs
\* of visibleRuns and no others.
C21_GridShownIffVisible ==
    Loaded =>
        /\ chartsGrid = "flex" <=> visibleRuns # {}
        /\ visibleRuns # {} => IdSet(gridRuns) = visibleRuns /\ NoRepeats(gridRuns)

\* a run was deselected and the grid, rebuilt, is shown for the run left
C21_Witness ==
    /\ Loaded
    /\ chartsGrid = "flex"
    /\ Len(allRuns) = 2
    /\ Cardinality(visibleRuns) = 1
    /\ IdSet(gridRuns) = visibleRuns

\* C22: once every pending timer has fired, each chart of the displayed grid
\* shows the points of exactly the runs then in visibleRuns, whatever the
\* interleaving of toggles, Select/Deselect All, expand clicks and timers.
C22_RedrawsShowVisibleRuns ==
    (timers = <<>> /\ chartsGrid = "flex") =>
        \A c \in ChartIds : IdSet(charts[c].runs) = visibleRuns

\* C23: at most one chart wrapper is expanded; a click on the expand button of
\* a chart that is not expanded leaves that chart alone expanded, and a click
\* on the expand button of the expanded chart leaves none expanded.
C23_AtMostOneExpanded ==
    /\ [](Cardinality(expanded) <= 1)
    /\ [][\A c \in ChartIds :
            ClickExpand(c) => expanded' = IF c \in expanded THEN {} ELSE {c}]_vars

\* the energy chart was expanded while the first chart was: the first is collapsed
C23_Witness ==
    /\ expanded = {"energyChart"}
    /\ \E i, j \in 1..Len(timers) :
          /\ i < j
          /\ timers[i].fn = "renderOne" /\ timers[i].chart = "paretoChart"
          /\ timers[j].fn = "renderOne" /\ timers[j].chart = "energyChart"
          /\ timers[i].runs = timers[j].runs

\* the series of the precision in the chart
SeriesOf(chart, precision) == IF precision = "fp32" THEN chart.fp32 ELSE chart.int8

\* the x field of the chart and the accuracy field, for the precision
XField(chartId, precision) ==
    IF precision = "fp32" THEN xKeyMap(XKeyOf(chartId)).fp32
    ELSE xKeyMap(XKeyOf(chartId)).int8
AccuracyField(precision) == IF precision = "fp32" THEN "accuracy_fp32" ELSE "accuracy_int8"

\* the points of the run in the series
PointsOf(series, id) == {i \in 1..Len(series) : series[i].run = id}

\* C24: in every chart drawn, for each precision, a run the chart was drawn
\* from has a point in the precision's series iff its x value and its accuracy
\* for that precision are both non-null; the point carries these two values,
\* and the run has no second point in the series.
C24_PointIffBothPresent ==
    \A c \in DOMAIN charts : \A precision \in {"fp32", "int8"} :
        \A id \in IdSet(charts[c].runs) :
            LET x == RunOf(id)[XField(c, precision)]
                y == RunOf(id)[AccuracyField(precision)]
                series == SeriesOf(charts[c], precision)
            IN IF ~IsNullish(x) /\ ~IsNullish(y)
               THEN /\ Cardinality(PointsOf(series, id)) = 1
                    /\ \A i \in PointsOf(series, id) : series[i].x = x /\ series[i].y = y
               ELSE PointsOf(series, id) = {}

\* the size chart drawn from "aC" and "b": "aC" has its FP32 point and, without
\* an INT8 accuracy, no INT8 point; "b", without sizes, has no point; the energy
\* chart shows "b" at an INT8 energy of 0
C24_Witness ==
    /\ charts # <<>>
    /\ Len(charts["paretoChart"].runs) = 2
    /\ Len(charts["paretoChart"].fp32) = 1
    /\ charts["paretoChart"].int8 = <<>>
    /\ Len(charts["energyChart"].int8) = 1
    /\ charts["energyChart"].int8[1].x = Num(0, 1)

-----------------------------------------------------------------------------
(* Claims about the sort state of the two tables *)

\* C25: a header click in one table changes the sorting of that table
\* only: a click on a column that only the raw table has leaves the row order
\* of the relative table as it was, and a click on a column that only the
\* relative table has leaves the row order of the raw table as it was.
C25_TablesSortIndependently ==
    [][/\ \A column \in RawClicked \ RelColumns :
            ClickRawHeader(column) => RowIds(relTable') = RowIds(relTable)
       /\ \A column \in RelClicked \ RawColumns :
            ClickRelHeader(column) => RowIds(rawTable') = RowIds(rawTable)]_vars

\* the ids of the visible runs in the order render() gives them
SortedIds(column, direction) ==
    LET runs == RenderRuns(allRuns, visibleRuns, column, direction)
    IN [i \in 1..Len(runs) |-> runs[i]["run"].s]

\* what holds instead: the two tables share one sort state: a header click in
\* either table makes the clicked column the sort column of both, ascending
\* unless the column was the sort column already (set from whichever table),
\* and both tables are rendered again in one and the same row order.
TablesShareSort ==
    [][\A column \in RelClicked \cup RawClicked :
          ClickHeader(column) =>
             /\ sortColumn' = column
             /\ sortDirection' = IF sortColumn = column THEN Flip(sortDirection) ELSE "asc"
             /\ visibleRuns # {} =>
                   /\ RowIds(relTable') = RowIds(rawTable')
                   /\ RowIds(relTable') = SortedIds(column, sortDirection')]_vars

-----------------------------------------------------------------------------
(* Claims about the run colors and the fields of the view state *)

\* a run list longer than the palette: runs "A", "B", ...
ManyRuns == [i \in 1..(PaletteSize + 2) |-> BlankRun(<<64 + i>>)]

C27_FieldsChangeByOwnAction ==
    [][fetchState = "settled" =>
          /\ visibleRuns' # visibleRuns =>
                \/ \E i \in 1..Len(sidebar) : ChartsToggleCheckbox(i)
                \/ ChartsSelectAll
                \/ ChartsDeselectAll
          /\ searchTerm' # searchTerm => \E text \in SearchTexts : EditSearch(text)
          /\ <<sortColumn, sortDirection>>' # <<sortColumn, sortDirection>> =>
                \E column \in RelColumns \cup RawColumns : ClickHeader(column)
          /\ expanded' # expanded => \E chartId \in ChartIds : ClickExpand(chartId)
          /\ collapsed' # collapsed => \E card \in CardIds : ClickCardHeader(card)]_vars

\* ---------------------------------------------------------------------------
\* TrainingLogger (tensorboardX/compression/training.py)
\* ---------------------------------------------------------------------------

\* float('nan'), a val_f1 a metric computed as 0/0 hands to log_epoch
NaN == [k |-> "nan", n |-> 0, d |-> 1, s |-> <<>>]

\* Python's a > b on floats: false whenever an operand is NaN
PyGreater(a, b) == a.k = "number" /\ b.k = "number" /\ a.n * b.d > b.n * a.d

\* f'{v:.4f}' of a finite float that is no tie: the nearest numeral of 4 decimals
format4f(v) == toFixed(v, 4)

MaxEpochCalls == 3
MaxEpoch == 2
Epochs == 0..MaxEpoch
F1Values == {Num(0, 1), Num(1, 2), Num(2, 3), NaN}

\* log_epoch replacing the best on a tie as well
log_epoch_OrEqual(epoch, val_f1) ==
    /\ Len(epochLog) < MaxEpochCalls
    /\ epochLog' = Append(epochLog, [epoch |-> epoch, val_f1 |-> val_f1])
    /\ IF PyGreater(val_f1, best_val_f1) \/ val_f1 = best_val_f1
       THEN best_val_f1' = val_f1 /\ best_epoch' = epoch
       ELSE UNCHANGED <<best_val_f1, best_epoch>>
    /\ UNCHANGED reported

\* logger.log_epoch(epoch, ..., val_f1): the scalars of the epoch are written
\* (epochLog keeps the epoch and the val_f1 of each call), then
\* if val_f1 > self.best_val_f1: self.best_val_f1 = val_f1; self.best_epoch = epoch
log_epoch(epoch, val_f1) ==
    /\ Len(epochLog) < MaxEpochCalls
    /\ epochLog' = Append(epochLog, [epoch |-> epoch, val_f1 |-> val_f1])
    /\ IF PyGreater(val_f1, best_val_f1)
       THEN best_val_f1' = val_f1 /\ best_epoch' = epoch
       ELSE UNCHANGED <<best_val_f1, best_epoch>>
    /\ UNCHANGED reported

offLoggerVars == <<viewVars, ratioVars, exportVars, serveVars, writerVars, chartVars, parserVars>>

LogEpoch(epoch, val_f1) == log_epoch(epoch, val_f1) /\ UNCHANGED offLoggerVars

\* logger.log_early_stopping(...): the scalars training/best_epoch and
\* training/best_val_f1 carry the two fields
log_early_stopping ==
    /\ reported' = [best_epoch |-> best_epoch, best_val_f1 |-> best_val_f1, text |-> ""]
    /\ UNCHANGED <<best_val_f1, best_epoch, epochLog>>
    /\ UNCHANGED offLoggerVars

\* logger.log_training_summary(...): the text holds 'Best Epoch: {best_epoch}'
\* and 'Best Val F1: {best_val_f1:.4f}'
log_training_summary ==
    /\ reported' = [best_epoch |-> best_epoch, best_val_f1 |-> Null,
                    text |-> format4f(best_val_f1)]
    /\ UNCHANGED <<best_val_f1, best_epoch, epochLog>>
    /\ UNCHANGED offLoggerVars

InitLogger ==
    /\ ViewIdle
    /\ RatioIdle
    /\ ExportIdle
    /\ ServeIdle
    /\ WriterIdle
    /\ ChartIdle
    /\ ParserIdle
    /\ LoggerIdle

NextLogger ==
    \/ \E epoch \in Epochs, val_f1 \in F1Values : LogEpoch(epoch, val_f1)
    \/ log_early_stopping
    \/ log_training_summary

SpecLogger == InitLogger /\ [][NextLogger]_vars

\* the val_f1 numbers logged so far, and 0.0
LoggedF1 == {Num(0, 1)} \cup {epochLog[i].val_f1 : i \in {j \in 1..Len(epochLog) : epochLog[j].val_f1.k = "number"}}
MaxF1 == CHOOSE m \in LoggedF1 : \A v \in LoggedF1 : ~PyGreater(v, m)
\* the calls whose val_f1 exceeded 0.0 and reached the maximum
Reaching == {i \in 1..Len(epochLog) : epochLog[i].val_f1 = MaxF1 /\ PyGreater(MaxF1, Num(0, 1))}
FirstReaching == CHOOSE i \in Reaching : \A j \in Reaching : i <= j

\* C28: after any sequence of log_epoch calls best_val_f1 is the maximum of 0.0
\* and every val_f1 logged so far (a NaN is no number and does not count), and
\* best_epoch is the epoch of the first call whose val_f1 reached that maximum
\* (0 if no val_f1 exceeded 0.0); log_early_stopping and log_training_summary
\* report the two fields and leave them as they are
C28_BestIsFirstMaximum ==
    /\ [](/\ best_val_f1 = MaxF1
          /\ best_epoch = IF Reaching = {} THEN 0 ELSE epochLog[FirstReaching].epoch)
    /\ [][/\ log_early_stopping =>
               /\ UNCHANGED <<best_val_f1, best_epoch>>
               /\ reported'.best_epoch = best_epoch
               /\ reported'.best_val_f1 = best_val_f1
          /\ log_training_summary =>
               /\ UNCHANGED <<best_val_f1, best_epoch>>
               /\ reported'.best_epoch = best_epoch
               /\ reported'.text = format4f(best_val_f1)]_vars

\* the maximum 2/3 was logged at epoch 2 and again at epoch 0; the summary
\* reports epoch 2 and 0.6667
C28_Witness ==
    /\ epochLog = <<[epoch |-> 1, val_f1 |-> Num(1, 2)], [epoch |-> 2, val_f1 |-> Num(2, 3)],
                    [epoch |-> 0, val_f1 |-> Num(2, 3)]>>
    /\ best_epoch = 2
    /\ best_val_f1 = Num(2, 3)
    /\ reported = [best_epoch |-> 2, best_val_f1 |-> Null, text |-> "0.6667"]

\* ---------------------------------------------------------------------------
\* BenchmarkParser.log_benchmark_results without a shared writer
\* (tensorboardX/compression/benchmark.py), called by scripts/visualize_benchmark.py
\* ---------------------------------------------------------------------------

\* the entries a benchmark file can hold for a model:
\*   "notdict"   a value that is no dict
\*   "nometrics" a dict whose fp32 or int8 part is missing or empty
\*   "plain"     fp32 and int8 metrics with numbers, no model_info
\*   "info"      the same with a model_info
\*   "nonumeric" fp32 and int8 parts that hold none of the numeric metrics
\*   "zerosize"  fp32 model_size_mb 0 and int8 model_size_mb > 0
ModelKinds == {"notdict", "nometrics", "plain", "info", "nonumeric", "zerosize"}

MaxModels == 2
JsonFiles ==
    [exists : BOOLEAN, models : UNION {[1..n -> ModelKinds] : n \in 0..MaxModels}]

\* CompressionWriter(logdir=...): an open writer with no record
OpenWriter(role, logdir) == [role |-> role, logdir |-> logdir, closed |-> FALSE,
                             records |-> <<>>, late |-> 0]

\* a record handed to a writer; `late` counts the ones that come after close()
WriteTo(w, record) ==
    IF w.closed THEN [w EXCEPT !.late = @ + 1]
    ELSE [w EXCEPT !.records = Append(@, record)]

RECURSIVE WriteAll(_, _)
WriteAll(w, records) ==
    IF records = <<>> THEN w ELSE WriteAll(WriteTo(w, Head(records)), Tail(records))

\* writer.close()
Close(w) == [w EXCEPT !.closed = TRUE]

offParserVars == <<viewVars, ratioVars, exportVars, serveVars, writerVars, chartVars, loggerVars>>

\* benchmark_data = self.load_benchmark_json(json_path):
\* if not os.path.exists(json_path): raise FileNotFoundError(...)
load_benchmark_json ==
    /\ parserCall.pc = "idle"
    /\ parserCall' = [parserCall EXCEPT !.pc = IF jsonFile.exists THEN "loaded"
                                                 ELSE "FileNotFoundError"]
    /\ UNCHANGED <<jsonFile, writers>>
    /\ UNCHANGED offParserVars

\* hparams_writer = CompressionWriter(logdir=hparams_logdir); writers = []
OpenHparamsWriter ==
    /\ parserCall.pc = "loaded"
    /\ writers' = <<OpenWriter("hparams", "base_hparams")>>
    /\ parserCall' = [parserCall EXCEPT !.pc = "loop", !.next = 1]
    /\ UNCHANGED jsonFile
    /\ UNCHANGED offParserVars

\* the calls of one loop pass that write to the model's writer, in their order;
\* log_compression_ratios raises ZeroDivisionError for a zero fp32 size
ModelRecords(kind) ==
    CASE kind = "zerosize" -> <<"log_compression_comparison", "size_ratio">>
      [] kind = "info" -> <<"log_compression_comparison", "log_compression_ratios",
                            "log_energy_comparison", "log_model_metadata",
                            "_log_additional_metrics">>
      [] OTHER -> <<"log_compression_comparison", "log_compression_ratios",
                    "log_energy_comparison", "_log_additional_metrics">>

\* _log_hparams: add_hparams unless the metric dict stayed empty
HparamsRecords(kind) == IF kind = "nonumeric" THEN <<>> ELSE <<"add_hparams">>

\* one pass of `for model_name, model_data in benchmark_data.items()`
ProcessModel ==
    /\ parserCall.pc = "loop"
    /\ parserCall.next <= Len(jsonFile.models)
    /\ \E kind \in {jsonFile.models[parserCall.next]} :
         IF kind \in {"notdict", "nometrics"}
         THEN /\ parserCall' = [parserCall EXCEPT !.next = @ + 1]
              /\ UNCHANGED writers
         ELSE \E w \in {WriteAll(OpenWriter("model", "base/" \o ToString(parserCall.next)),
                                 ModelRecords(kind))} :
                IF kind = "zerosize"
                THEN /\ writers' = Append(writers, w)
                     /\ parserCall' = [parserCall EXCEPT !.pc = "ZeroDivisionError"]
                ELSE /\ writers' = Append([writers EXCEPT
                                             ![1] = WriteAll(@, HparamsRecords(kind))],
                                          Close(w))
                     /\ parserCall' = [parserCall EXCEPT !.next = @ + 1]
    /\ UNCHANGED jsonFile
    /\ UNCHANGED offParserVars

\* the return after the loop: writers[-1], or a new writer if no model was processed
Return ==
    /\ parserCall.pc = "loop"
    /\ parserCall.next > Len(jsonFile.models)
    /\ IF Len(writers) > 1
       THEN /\ UNCHANGED writers
            /\ parserCall' = [parserCall EXCEPT !.pc = "returned", !.returned = Len(writers)]
       ELSE /\ writers' = Append(writers, OpenWriter("dummy", "base"))
            /\ parserCall' = [parserCall EXCEPT !.pc = "returned", !.returned = Len(writers) + 1]
    /\ UNCHANGED jsonFile
    /\ UNCHANGED offParserVars

\* main(): writer = parser.log_benchmark_results(...); ...; writer.close()
MainClose ==
    /\ parserCall.pc = "returned"
    /\ writers' = [writers EXCEPT ![parserCall.returned] = Close(@)]
    /\ parserCall' = [parserCall EXCEPT !.pc = "done"]
    /\ UNCHANGED jsonFile
    /\ UNCHANGED offParserVars

InitParser ==
    /\ ViewIdle
    /\ RatioIdle
    /\ ExportIdle
    /\ ServeIdle
    /\ WriterIdle
    /\ ChartIdle
    /\ LoggerIdle
    /\ jsonFile \in JsonFiles
    /\ writers = <<>>
    /\ parserCall = NotCalled

NextParser ==
    \/ load_benchmark_json
    \/ OpenHparamsWriter
    \/ ProcessModel
    \/ Return
    \/ MainClose

SpecParser == InitParser /\ [][NextParser]_vars

\* C29: when log_benchmark_results has returned, every writer it opened for a
\* processed model and the hparams writer are closed; no record was written to
\* a writer after its close; and for a missing JSON file the call ends in
\* FileNotFoundError with no writer opened
C29_WritersClosedOnReturn ==
    /\ parserCall.pc = "returned" =>
         \A i \in 1..Len(writers) :
            writers[i].role \in {"model", "hparams"} => writers[i].closed
    /\ \A i \in 1..Len(writers) : writers[i].late = 0
    /\ (~jsonFile.exists /\ parserCall.pc # "idle") =>
         parserCall.pc = "FileNotFoundError" /\ writers = <<>>

\* what holds of the writers: the model writers are closed on return, nothing
\* is written after a close, a missing file opens no writer
ModelWritersClosedOnReturn ==
    /\ parserCall.pc = "returned" =>
         \A i \in 1..Len(writers) : writers[i].role = "model" => writers[i].closed
    /\ \A i \in 1..Len(writers) : writers[i].late = 0
    /\ (~jsonFile.exists /\ parserCall.pc # "idle") =>
         parserCall.pc = "FileNotFoundError" /\ writers = <<>>

\* ---------------------------------------------------------------------------
\* From the writer to the reader: a model logged by BenchmarkParser into its
\* own run, the run loaded by TensorBoard, the summary served from it
\* ---------------------------------------------------------------------------

\* log_compression_comparison(model_name, fp32_metrics, int8_metrics, step):
\* a metric in both dictionaries is written once per precision (the loss,
\* which the dictionaries here do not hold, likewise)
log_compression_comparison(model_name, fp32, int8) ==
    LET both(key, tag) ==
            IF In(key, fp32) /\ In(key, int8)
            THEN <<Scalar(model_name, tag \o "/fp32", fp32[key]),
                   Scalar(model_name, tag \o "/int8", int8[key])>>
            ELSE <<>>
    IN both("accuracy", "metrics/accuracy")
       \o both("f1_score", "metrics/f1_score")
       \o both("latency_mean_ms", "performance/latency_ms")
       \o both("model_size_mb", "performance/model_size_mb")
       \o both("memory_usage_mb", "performance/memory_usage_mb")

\* the dictionaries of a benchmark file: no key, a positive number, and the
\* 0.0 of a memory or energy measurement that found no difference
BenchmarkValues(key) ==
    CASE key = "accuracy" -> {Null, Num(9, 10)}
      [] key = "f1_score" -> {Null, Num(4, 5)}
      [] key = "model_size_mb" -> {Null, Num(2, 1)}
      [] key = "latency_mean_ms" -> {Null, Num(2, 1)}
      [] key = "memory_usage_mb" -> {Null, Num(0, 1), Num(64, 1)}
      [] key = "energy_consumption_mw" -> {Null, Num(0, 1), Num(2, 1)}

BenchmarkDicts ==
    [accuracy : BenchmarkValues("accuracy"),
     f1_score : BenchmarkValues("f1_score"),
     model_size_mb : BenchmarkValues("model_size_mb"),
     latency_mean_ms : BenchmarkValues("latency_mean_ms"),
     memory_usage_mb : BenchmarkValues("memory_usage_mb"),
     energy_consumption_mw : BenchmarkValues("energy_consumption_mw")]

\* not fp32_metrics: the dictionary has no key
IsEmptyDict(dict) == \A key \in DOMAIN dict : dict[key] = Null

offTagVars == <<viewVars, ratioVars, exportVars, chartVars, loggerVars, parserVars>>

\* the loop pass of log_benchmark_results for the model "m" with its own writer
LogBenchmarkModel ==
    /\ writerCall = "none"
    /\ IF IsEmptyDict(metrics.fp32) \/ IsEmptyDict(metrics.int8)
       THEN /\ written' = {}
            /\ writerCall' = "skipped"
       ELSE \E stmts \in {log_compression_comparison("m", metrics.fp32, metrics.int8)
                          \o log_compression_ratios("m", metrics.fp32, metrics.int8)
                          \o log_energy_comparison("m", metrics.fp32, metrics.int8)} :
              /\ written' = Writes(stmts)
              /\ writerCall' = IF Raises(stmts) THEN "raised" ELSE "closed"
    /\ UNCHANGED metrics
    /\ UNCHANGED serveVars
    /\ UNCHANGED offTagVars

\* the event file of the run "m" as TensorBoard holds it: one series per tag,
\* offered through the data provider or through the multiplexer only
RunOfWriter ==
    StoreRun("m", "m", TRUE, TRUE,
             [sfx \in {w.suffix : w \in written} |->
                 <<(CHOOSE w \in written : w.suffix = sfx).value>>])

LoadRun ==
    /\ writerCall = "closed"
    /\ store = NoStore
    /\ \E dp \in {"absent", "ok"} :
          store' = [data_provider |-> dp, multiplexer |-> "ok", runs |-> <<RunOfWriter>>]
    /\ UNCHANGED <<response, active>>
    /\ UNCHANGED writerVars
    /\ UNCHANGED offTagVars

\* a GET of the summary route once the run is loaded
ServeLoggedRun ==
    /\ store # NoStore
    /\ ServeSummary

InitTags ==
    /\ ViewIdle
    /\ RatioIdle
    /\ ExportIdle
    /\ ServeIdle
    /\ ChartIdle
    /\ LoggerIdle
    /\ ParserIdle
    /\ metrics \in [fp32 : BenchmarkDicts, int8 : BenchmarkDicts]
    /\ written = {}
    /\ writerCall = "none"

NextTags ==
    \/ LogBenchmarkModel
    \/ LoadRun
    \/ ServeLoggedRun

SpecTags == InitTags /\ [][NextTags]_vars

\* the tag suffix under which the writer logs what the field of the record shows
WriterSuffix(f) ==
    CASE f = "accuracy_fp32" -> "metrics/accuracy/fp32"
      [] f = "accuracy_int8" -> "metrics/accuracy/int8"
      [] f = "model_size_fp32" -> "performance/model_size_mb/fp32"
      [] f = "model_size_int8" -> "performance/model_size_mb/int8"
      [] f = "latency_fp32" -> "performance/latency_ms/fp32"
      [] f = "latency_int8" -> "performance/latency_ms/int8"
      [] f = "memory_fp32" -> "performance/memory_usage_mb/fp32"
      [] f = "memory_int8" -> "performance/memory_usage_mb/int8"
      [] f = "energy_fp32" -> "performance/energy_mw/fp32"
      [] f = "energy_int8" -> "performance/energy_mw/int8"
      [] f = "accuracy_drop" -> "compression/accuracy_drop"
      [] f = "size_ratio" -> "compression/size_ratio"
      [] f = "speedup" -> "compression/speedup"
      [] f = "memory_reduction_mb" -> "compression/memory_reduction_mb"
      [] f = "energy_reduction_mw" -> "compression/energy_reduction_mw"

\* the records served for the run "m"
RecordsOfM == {i \in 1..Len(response.runs) : response.runs[i]["run"] = Str("m")}

\* C30: for a model logged into its own run with a metric present in both
\* dictionaries, the summary serves one record for the run, and each field of
\* it (accuracy, model size, latency, memory, energy per precision, and
\* accuracy_drop, size_ratio, speedup, memory_reduction_mb, energy_reduction_mw)
\* whose scalar the writer logged equals the logged value
C30_WriterReaderAgree ==
    (Served /\ \E key \in DOMAIN metrics.fp32 : In(key, metrics.fp32) /\ In(key, metrics.int8))
        => /\ Cardinality(RecordsOfM) = 1
           /\ \A i \in RecordsOfM : \A f \in NumFields : \A w \in written :
                 w.suffix = WriterSuffix(f) => response.runs[i][f] = w.value

\* what holds: every record served for the run shows, in each field, the
\* logged value unless that value is a 0 of a latency, memory or energy field
NonZeroFieldsAgree ==
    Served =>
        /\ Cardinality(RecordsOfM) <= 1
        /\ \A i \in RecordsOfM : \A f \in NumFields : \A w \in written :
              (w.suffix = WriterSuffix(f) /\ (w.value.n # 0 \/ Len(FieldTags(f)) = 1))
                 => response.runs[i][f] = w.value

====
